---- MODULE Spec2Model ----
(***************************************************************************)
(* Troy IT portal: the stored schedule (semesters, cohorts, class groups,  *)
(* courses, schedule entries, import runs), the lecturer tables            *)
(* (CourseTeachingAssignment, CourseLecturerOverride), the schedule query  *)
(* that resolves lecturers per entry, the course page's teaching team and  *)
(* the workbook import.                                                    *)
(***************************************************************************)
EXTENDS Integers, Sequences, FiniteSets, TLC

VARIABLES
    semesters,        \* Semester rows          [id, key, label, startDate, endDate]
    cohorts,          \* Cohort rows            [id, semesterId, code]
    classGroups,      \* ClassGroup rows        [id, cohortId, name]
    courses,          \* Course rows            [id, code]
    scheduleEntries,  \* ScheduleEntry rows
    importRuns,       \* ImportRun rows, in creation order
    nextId,           \* source of fresh row ids
    assignments,      \* CourseTeachingAssignment rows (a set; unique natural key)
    overrides,        \* CourseLecturerOverride rows, in storage order
    portal,           \* what the last getPortalData call returned (NoView before)
    coursePage,       \* what the last CourseDetailPage render computed (NoView before)
    imp,              \* the import invocation in progress (position and locals)
    call,             \* a call of a text helper: its argument and, once made, its result
    cache,            \* knowledge.ts: the module's cached bundle (NoCache before the first load)
    catalogFiles,     \* the catalog and guide documents on disk: lecturer ids per course
    deviceTrust,      \* DeviceTrust rows: <<userId, deviceId>>
    deviceChallenges, \* DeviceChallenge rows
    now,              \* the server's clock
    sessions,         \* the session of the last response that set a cookie, if any
    verifying         \* verify-device requests in flight, per request slot

dbVars == <<semesters, cohorts, classGroups, courses, scheduleEntries, importRuns, nextId>>
lecturerVars == <<assignments, overrides>>
viewVars == <<portal, coursePage, call>>
knowledgeVars == <<cache, catalogFiles>>
authVars == <<deviceTrust, deviceChallenges, now, sessions, verifying>>
vars == <<semesters, cohorts, classGroups, courses, scheduleEntries, importRuns, nextId,
          assignments, overrides, portal, coursePage, imp, call, cache, catalogFiles,
          deviceTrust, deviceChallenges, now, sessions, verifying>>

Null == "null"

\* no account has logged in yet: the auth tables are empty, no request in flight
VerifySlots == {1, 2}
NoVerify == [pc |-> "idle"]
NoAuthActivity ==
    /\ deviceTrust = {}
    /\ deviceChallenges = {}
    /\ now = 0
    /\ sessions = {}
    /\ verifying = [slot \in VerifySlots |-> NoVerify]
\* SQL NULL in a date or reference column
NullNumber == 0
NoView == [kind |-> "none"]
NoCall == [fn |-> "none"]

(***************************************************************************)
(* Bounded universes of the values the tables and queries range over.      *)
(***************************************************************************)
CourseCodes == {"X", "Y"}
SemesterKeys == {"S1", "S2"}
ClassGroupNames == {"IT 01", "IT 02"}
InstructionCodes == {"IHA1"}
LecturerIds == {"a", "b"}
MaxRows == 2

\* lecturers the catalog (guide documents) declares per course, as shipped
ShippedCatalog == [courseCode \in CourseCodes |-> IF courseCode = "X" THEN {"a"} ELSE {}]

\* let cache = null
NoCache == [at |-> Null]

\* buildKnowledge: the bundle read from the files on disk
buildKnowledge == catalogFiles

\* loadKnowledge(): the cached bundle while Date.now() - cache.at < CACHE_TTL_MS
\* (cache.at = "fresh"), otherwise a bundle built from the files
loadKnowledge ==
    IF cache.at = "fresh" THEN cache.data ELSE buildKnowledge

\* the module's cache after loadKnowledge(): replaced when it was missing or stale
CacheAfterLoad ==
    IF cache.at = "fresh" THEN cache ELSE [at |-> "fresh", data |-> buildKnowledge]

\* the lecturers of a course in the bundle loadKnowledge returns
CatalogLecturerIds(courseCode) == loadKnowledge[courseCode]

\* lecturer names sort as their ids do: the position of an id in name order
NameRank(lecturerId) ==
    CASE lecturerId = "a" -> 1
      [] lecturerId = "b" -> 2
      [] OTHER -> 3

(***************************************************************************)
(* Text normalisation, tabulated on the texts the model uses.              *)
(***************************************************************************)
\* trim, upper-case, drop every character outside A-Z0-9
NormalizeInstructionCode(raw) ==
    CASE raw \in {"IHA1", "iha1", " IHA-1 "} -> "IHA1"
      [] OTHER -> ""

\* trim, upper-case, collapse runs of whitespace
NormalizeClassGroupName(raw) ==
    CASE raw \in {"IT 01", "it 01", " IT  01 "} -> "IT 01"
      [] raw \in {"IT 02", "it 02", " IT  02 "} -> "IT 02"
      [] OTHER -> ""

\* trim, upper-case, every run outside A-Z0-9_- becomes "_"
NormalizeSemesterKey(raw) ==
    CASE raw \in {"S1", "s1", " S1 "} -> "S1"
      [] raw \in {"S2", "s2", " S2 "} -> "S2"
      [] raw \in {"SPRING_2026", "spring_2026", "SPRING 2026"} -> "SPRING_2026"
      [] OTHER -> ""

\* first word IHA + 1..4 letters or digits of the upper-cased text, normalised
ExtractInstructionCode(value) ==
    CASE value \in {"LAB IHA1", "13:00 IHA1", "iha1"} -> NormalizeInstructionCode("IHA1")
      [] OTHER -> ""

(***************************************************************************)
(* Table row shapes.                                                       *)
(***************************************************************************)
\* rows of course X in every shape, and rows of a second course Y (enabled, in
\* semester S1, lecturer b) that must not leak into X's resolution
AssignmentRows ==
    [courseCode : {"X"}, semesterKey : SemesterKeys,
     classGroupName : {""} \cup ClassGroupNames,
     instructionCode : {""} \cup InstructionCodes,
     lecturerId : LecturerIds, enabled : BOOLEAN]
    \cup
    [courseCode : {"Y"}, semesterKey : {"S1"},
     classGroupName : {"", "IT 01"}, instructionCode : {""},
     lecturerId : {"b"}, enabled : {TRUE}]

OverrideRows ==
    [courseCode : {"X"}, semesterKey : {""} \cup SemesterKeys,
     lecturerId : LecturerIds, enabled : BOOLEAN]
    \cup
    [courseCode : {"Y"}, semesterKey : {"S1"},
     lecturerId : {"b"}, enabled : BOOLEAN]

AssignmentKey(r) ==
    <<r.courseCode, r.semesterKey, r.classGroupName, r.instructionCode, r.lecturerId>>

OverrideKey(r) == <<r.courseCode, r.semesterKey, r.lecturerId>>

Range(s) == {s[i] : i \in 1..Len(s)}

\* every enumeration of a finite set as a sequence without repetition
Orderings(S) ==
    {s \in [1..Cardinality(S) -> S] : \A i, j \in 1..Cardinality(S) : s[i] = s[j] => i = j}

(***************************************************************************)
(* resolveLecturersForEntry: score the fetched assignment rows of one      *)
(* entry, keep the rows at the maximum score.                              *)
(***************************************************************************)
\* a row whose non-wildcard field differs from the entry's is skipped
RejectsAssignment(assignment, courseCode, classGroupName, instructionCode) ==
    \/ assignment.courseCode # courseCode
    \/ /\ NormalizeClassGroupName(assignment.classGroupName) # ""
       /\ NormalizeClassGroupName(assignment.classGroupName) # classGroupName
    \/ /\ NormalizeInstructionCode(assignment.instructionCode) # ""
       /\ NormalizeInstructionCode(assignment.instructionCode) # instructionCode

\* +2 for a class group given, +1 for an instruction code given
AssignmentScore(assignment) ==
    (IF NormalizeClassGroupName(assignment.classGroupName) # "" THEN 2 ELSE 0)
    + (IF NormalizeInstructionCode(assignment.instructionCode) # "" THEN 1 ELSE 0)

\* slip: a higher score no longer clears the rows matched so far
TrackMaximumKeepsLower(acc, score, lecturerId) ==
    IF score > acc.maxScore
    THEN [maxScore |-> score, matched |-> Append(acc.matched, lecturerId)]
    ELSE IF score = acc.maxScore
         THEN [acc EXCEPT !.matched = Append(@, lecturerId)]
         ELSE acc

\* slip: a row that ties the maximum is dropped, the first one wins
TrackMaximumFirstWins(acc, score, lecturerId) ==
    IF score > acc.maxScore
    THEN [maxScore |-> score, matched |-> <<lecturerId>>]
    ELSE acc

\* the if / else-if that updates maxScore and matched
TrackMaximum(acc, score, lecturerId) ==
    IF score > acc.maxScore
    THEN [maxScore |-> score, matched |-> <<lecturerId>>]
    ELSE IF score = acc.maxScore
         THEN [acc EXCEPT !.matched = Append(@, lecturerId)]
         ELSE acc

RECURSIVE ResolveLoop(_, _, _, _, _, _)
ResolveLoop(rows, i, courseCode, classGroupName, instructionCode, acc) ==
    IF i > Len(rows) THEN acc
    ELSE ResolveLoop(rows, i + 1, courseCode, classGroupName, instructionCode,
            IF RejectsAssignment(rows[i], courseCode, classGroupName, instructionCode)
            THEN acc
            ELSE TrackMaximum(acc, AssignmentScore(rows[i]), rows[i].lecturerId))

\* [...new Set(matched)]: first occurrences, in order
RECURSIVE UniqueIds(_)
UniqueIds(matched) ==
    IF matched = <<>> THEN <<>>
    ELSE LET front == UniqueIds(SubSeq(matched, 1, Len(matched) - 1))
             last == matched[Len(matched)]
         IN IF last \in Range(front) THEN front ELSE Append(front, last)

resolveLecturersForEntry(courseCode, classGroupName, instructionCode, rows) ==
    UniqueIds(ResolveLoop(rows, 1, courseCode, classGroupName, instructionCode,
                          [maxScore |-> -1, matched |-> <<>>]).matched)

(***************************************************************************)
(* getPortalData: the fallback sets and the per-entry choice.              *)
(***************************************************************************)
\* slip: a disabled override cannot remove an id an earlier row added
ApplyOverrideAddOnly(row, override) ==
    IF override.enabled THEN row \cup {override.lecturerId}
    ELSE row

\* one CourseLecturerOverride applied to a course's fallback set
ApplyOverride(row, override) ==
    IF override.enabled THEN row \cup {override.lecturerId}
    ELSE row \ {override.lecturerId}

RECURSIVE ApplyOverrides(_, _, _, _)
ApplyOverrides(row, courseCode, fetched, i) ==
    IF i > Len(fetched) THEN row
    ELSE ApplyOverrides(
            IF fetched[i].courseCode = courseCode THEN ApplyOverride(row, fetched[i]) ELSE row,
            courseCode, fetched, i + 1)

fallbackLecturerIdsByCourse(selectedCourseCodes, fetched) ==
    [c \in selectedCourseCodes |-> ApplyOverrides(CatalogLecturerIds(c), c, fetched, 1)]

\* the ids of a set as a sequence in name order
RECURSIVE SortByName(_)
SortByName(ids) ==
    IF ids = {} THEN <<>>
    ELSE LET first == CHOOSE x \in ids : \A y \in ids : NameRank(x) <= NameRank(y)
         IN <<first>> \o SortByName(ids \ {first})

\* slip: the fallback set is appended to the scoped result
EntryLecturersMerged(lecturers, fallbackIds) ==
    lecturers \o SortByName(fallbackIds)

\* slip: the fallback is used only when the scoped result is empty and the
\* fallback has more than the catalog's lecturers
EntryLecturersNoFallback(lecturers, fallbackIds) ==
    <<>>

\* lecturers.length > 0 ? lecturers : the course's fallback set in name order
EntryLecturers(lecturers, fallbackIds) ==
    IF Len(lecturers) > 0 THEN lecturers ELSE SortByName(fallbackIds)

\* the findMany on CourseTeachingAssignment; semesterFilter is FALSE when the
\* first query rejected and the retry without semesterKey answered
FetchTeachingAssignments(semesterKey, courseCodes, classGroupUpper, semesterFilter) ==
    {r \in assignments :
        /\ r.enabled
        /\ semesterFilter => r.semesterKey = semesterKey
        /\ r.courseCode \in courseCodes
        /\ r.classGroupName \in {"", classGroupUpper}}

\* the findMany on CourseLecturerOverride, rows in storage order
FetchCourseLecturerOverrides(selectedSemesterKey, selectedCourseCodes, semesterFilter) ==
    SelectSeq(overrides, LAMBDA r :
        /\ semesterFilter => r.semesterKey = selectedSemesterKey
        /\ r.courseCode \in selectedCourseCodes)

CourseCodeOf(courseId) == (CHOOSE c \in courses : c.id = courseId).code

NoImport == [result |-> "none"]
NoJob == [sheet |-> 0]
NoSummary == [entries |-> 0, courses |-> 0, classGroups |-> 0]
idle == [pc |-> "idle", invocations |-> 0, last |-> NoImport, job |-> NoJob]

\* DAY_ORDER.indexOf(day) and the start time as sortEntries compares it
\* (a missing start time sorts as "99:99")
DayRank(day) ==
    CASE day = "MON" -> 1
      [] day = "TUE" -> 2
      [] day = "WED" -> 3
      [] OTHER -> 4

TimeRank(startTime) ==
    CASE startTime = "08:00" -> 800
      [] startTime = "13:00" -> 1300
      [] OTHER -> 9999

\* sortEntries applied to the rows found; rows of one slot stay in id order
EntryBefore(a, b) ==
    \/ DayRank(a.dayOfWeek) < DayRank(b.dayOfWeek)
    \/ /\ DayRank(a.dayOfWeek) = DayRank(b.dayOfWeek)
       /\ \/ TimeRank(a.startTime) < TimeRank(b.startTime)
          \/ TimeRank(a.startTime) = TimeRank(b.startTime) /\ a.id < b.id

RECURSIVE SortEntries(_)
SortEntries(found) ==
    IF found = {} THEN <<>>
    ELSE LET first == CHOOSE a \in found : \A b \in found \ {a} : EntryBefore(a, b)
         IN <<first>> \o SortEntries(found \ {first})

\* slip: the course code is pushed without looking at the list
AddConflictCourseAlways(listed, code) ==
    Append(listed, code)

\* if (!existing.courses.includes(code)) existing.courses.push(code)
AddConflictCourse(listed, code) ==
    IF code \in Range(listed) THEN listed ELSE Append(listed, code)

\* the loop of computeConflicts over the entries in order
RECURSIVE ConflictGroups(_, _)
ConflictGroups(entries, grouped) ==
    IF entries = <<>> THEN grouped
    ELSE LET entry == Head(entries)
             hits == {i \in 1..Len(grouped) :
                         /\ grouped[i].dayOfWeek = entry.dayOfWeek
                         /\ grouped[i].startTime = entry.startTime}
         IN IF entry.startTime = Null THEN ConflictGroups(Tail(entries), grouped)
            ELSE IF hits = {}
            THEN ConflictGroups(Tail(entries),
                     Append(grouped, [dayOfWeek |-> entry.dayOfWeek,
                                      startTime |-> entry.startTime,
                                      courses |-> <<entry.courseCode>>]))
            ELSE ConflictGroups(Tail(entries),
                     [i \in 1..Len(grouped) |->
                         IF i \in hits
                         THEN [grouped[i] EXCEPT
                                  !.courses = AddConflictCourse(@, entry.courseCode)]
                         ELSE grouped[i]])

computeConflicts(entries) ==
    SelectSeq(ConflictGroups(entries, <<>>), LAMBDA conflict : Len(conflict.courses) > 1)

\* the schedule query for an existing semester / cohort / class group; one
\* read (this query or a course page) is observed per behaviour: a read changes
\* no table, so what it returns does not depend on earlier reads
GetPortalData ==
    \E sem \in semesters, cohort \in cohorts, cg \in classGroups,
       asgFilter \in BOOLEAN, ovrFilter \in BOOLEAN :
        /\ portal = NoView /\ coursePage = NoView
        /\ cohort.semesterId = sem.id
        /\ cg.cohortId = cohort.id
        /\ LET found == {e \in scheduleEntries :
                            e.semesterId = sem.id /\ e.classGroupId = cg.id}
               selectedSemesterKey == NormalizeSemesterKey(sem.key)
               selectedClassGroupUpper == NormalizeClassGroupName(cg.name)
               selectedCourseCodes == {CourseCodeOf(e.courseId) : e \in found}
               fetchedOverrides == FetchCourseLecturerOverrides(
                    selectedSemesterKey, selectedCourseCodes, ovrFilter)
               fallback == fallbackLecturerIdsByCourse(selectedCourseCodes, fetchedOverrides)
           IN \E teachingAssignments \in Orderings(FetchTeachingAssignments(
                    selectedSemesterKey, selectedCourseCodes, selectedClassGroupUpper,
                    asgFilter)) :
                portal' =
                    [kind |-> "portal",
                     semesterKey |-> sem.key,
                     classGroupName |-> cg.name,
                     asgFilter |-> asgFilter,
                     ovrFilter |-> ovrFilter,
                     fallback |-> fallback,
                     conflicts |->
                        LET sorted == SortEntries(found)
                        IN computeConflicts(
                               [i \in 1..Len(sorted) |->
                                   [dayOfWeek |-> sorted[i].dayOfWeek,
                                    startTime |-> sorted[i].startTime,
                                    courseCode |-> CourseCodeOf(sorted[i].courseId)]]),
                     entries |->
                        [id \in {e.id : e \in found} |->
                            LET e == CHOOSE x \in found : x.id = id
                                code == CourseCodeOf(e.courseId)
                                instructionCode == ExtractInstructionCode(
                                    IF e.room # Null THEN e.room ELSE e.rawTime)
                                lecturers == resolveLecturersForEntry(
                                    code, selectedClassGroupUpper, instructionCode,
                                    teachingAssignments)
                            IN [courseCode |-> code,
                                dayOfWeek |-> e.dayOfWeek,
                                startTime |-> e.startTime,
                                instructionCode |-> instructionCode,
                                resolved |-> lecturers,
                                lecturers |-> EntryLecturers(lecturers, fallback[code])]]]
        /\ cache' = CacheAfterLoad
        /\ UNCHANGED <<dbVars, lecturerVars, coursePage, imp, call, catalogFiles, authVars>>

(***************************************************************************)
(* getAcademicBundle (a course's lecturers: the catalog's with the global  *)
(* overrides applied) and CourseDetailPage (the course's teaching team in  *)
(* the selected semester).                                                 *)
(***************************************************************************)
\* semesterFilter is FALSE when the query on semesterKey "" rejected and the
\* unfiltered findMany answered
loadGlobalCourseLecturerOverrides(semesterFilter) ==
    SelectSeq(overrides, LAMBDA r : semesterFilter => r.semesterKey = "")

\* slip: an override only adds to its own set, never clears the other one
CourseLecturerRuleSticky(rules, override) ==
    IF override.enabled
    THEN [rules EXCEPT !.attach = @ \cup {override.lecturerId}]
    ELSE [rules EXCEPT !.detach = @ \cup {override.lecturerId}]

\* one override folded into the course's attach / detach sets
CourseLecturerRule(rules, override) ==
    IF override.enabled
    THEN [attach |-> rules.attach \cup {override.lecturerId},
          detach |-> rules.detach \ {override.lecturerId}]
    ELSE [attach |-> rules.attach \ {override.lecturerId},
          detach |-> rules.detach \cup {override.lecturerId}]

RECURSIVE courseLecturerRules(_, _, _, _)
courseLecturerRules(courseCode, fetched, i, rules) ==
    IF i > Len(fetched) THEN rules
    ELSE courseLecturerRules(courseCode, fetched, i + 1,
            IF fetched[i].courseCode = courseCode
            THEN CourseLecturerRule(rules, fetched[i])
            ELSE rules)

\* course.lecturers of the bundle: catalog ids, minus detach, then plus attach
BundleCourseLecturerIds(courseCode, fetched) ==
    LET rules == courseLecturerRules(courseCode, fetched, 1, [attach |-> {}, detach |-> {}])
    IN (CatalogLecturerIds(courseCode) \ rules.detach) \cup rules.attach

\* the rows getCourseTeachingAssignments returns for the course page
getCourseTeachingAssignments(courseCode, semesterKey, semesterFilter) ==
    {r \in assignments :
        /\ r.courseCode = courseCode
        /\ semesterFilter => r.semesterKey = NormalizeSemesterKey(semesterKey)
        /\ r.enabled}

\* effectiveLecturerIds: bundle lecturers, the semester's overrides applied in
\* order, then every fetched assignment's lecturer added
EffectiveLecturerIds(bundleIds, courseCode, semesterOverrides, teachingAssignments) ==
    ApplyOverrides(bundleIds, courseCode, semesterOverrides, 1)
        \cup {r.lecturerId : r \in teachingAssignments}

CourseDetailPage ==
    \E courseCode \in CourseCodes, sem \in semesters,
       bundleFilter \in BOOLEAN, asgFilter \in BOOLEAN :
        /\ portal = NoView /\ coursePage = NoView
        /\ LET bundleIds == BundleCourseLecturerIds(
                    courseCode, loadGlobalCourseLecturerOverrides(bundleFilter))
               teachingAssignments == getCourseTeachingAssignments(
                    courseCode, sem.key, asgFilter)
               assignmentHints == {e \in scheduleEntries :
                    CourseCodeOf(e.courseId) = courseCode /\ e.semesterId = sem.id}
               semesterOverrides == SelectSeq(overrides, LAMBDA r :
                    r.courseCode = courseCode /\ r.semesterKey = sem.key)
           IN coursePage' =
                [kind |-> "course",
                 courseCode |-> courseCode,
                 semesterKey |-> sem.key,
                 bundleFilter |-> bundleFilter,
                 asgFilter |-> asgFilter,
                 bundleLecturers |-> bundleIds,
                 hints |-> {[classGroupName |->
                                (CHOOSE g \in classGroups : g.id = e.classGroupId).name,
                             instructionCode |-> ExtractInstructionCode(
                                IF e.room # Null THEN e.room ELSE e.rawTime)] :
                            e \in assignmentHints},
                 teachingTeam |-> SortByName(EffectiveLecturerIds(
                    bundleIds, courseCode, semesterOverrides, teachingAssignments))]
        /\ cache' = CacheAfterLoad
        /\ UNCHANGED <<dbVars, lecturerVars, portal, imp, call, catalogFiles, authVars>>

(***************************************************************************)
(* Lecturer-resolution scenarios: a stored schedule of two semesters, one  *)
(* cohort each, two class groups each, and lecturer tables drawn from the  *)
(* bounded row sets.                                                       *)
(***************************************************************************)
RECURSIVE AssignmentTables(_)
AssignmentTables(n) ==
    IF n = 0 THEN {{}}
    ELSE LET smaller == AssignmentTables(n - 1)
         IN smaller \cup
            {t \cup {r} : t \in smaller,
                          r \in {x \in AssignmentRows : TRUE}}

UniqueAssignmentKeys(t) ==
    \A r1, r2 \in t : AssignmentKey(r1) = AssignmentKey(r2) => r1 = r2

RECURSIVE OverrideTables(_)
OverrideTables(n) ==
    IF n = 0 THEN {<<>>}
    ELSE LET smaller == OverrideTables(n - 1)
         IN smaller \cup
            {Append(t, r) : t \in smaller, r \in OverrideRows}

UniqueOverrideKeys(t) ==
    \A i, j \in 1..Len(t) : OverrideKey(t[i]) = OverrideKey(t[j]) => i = j

GroupSeq == <<"IT 01", "IT 02">>
TextSeq == <<[room |-> "A101", rawTime |-> "08:00"],
             [room |-> "LAB IHA1", rawTime |-> "08:00"],
             [room |-> Null, rawTime |-> "13:00 IHA1"]>>

\* semester S1 with cohort K69 and its two class groups; semester S2 exists
\* (lecturers can be attached to it) but has no cohort yet
SeededSemesters ==
    {[id |-> 1, key |-> "S1", label |-> "S1", startDate |-> NullNumber, endDate |-> NullNumber],
     [id |-> 2, key |-> "S2", label |-> "S2", startDate |-> NullNumber, endDate |-> NullNumber]}
SeededCohorts == {[id |-> 11, semesterId |-> 1, code |-> "K69"]}
SeededClassGroups ==
    {[id |-> 20 + g, cohortId |-> 11, name |-> GroupSeq[g]] : g \in 1..2}
SeededCourses ==
    {[id |-> 30 + c, code |-> <<"X", "Y">>[c], nameEn |-> Null, nameVi |-> Null,
      credits |-> Null, prerequisite |-> Null] : c \in 1..2}
\* per class group: course X in three cells, course Y in one
SeededEntries ==
    {[id |-> 100 + 10 * g + t,
      semesterId |-> 1, classGroupId |-> 20 + g,
      courseId |-> IF t = 4 THEN 32 ELSE 31,
      dayOfWeek |-> "MON",
      startTime |-> IF t = 3 THEN "13:00" ELSE "08:00",
      rawTime |-> IF t = 4 THEN "08:00" ELSE TextSeq[t].rawTime,
      room |-> IF t = 4 THEN "B202" ELSE TextSeq[t].room,
      sourceRow |-> 10 * g + t] : g \in 1..2, t \in 1..4}

InitSeededSchedule ==
    /\ semesters = SeededSemesters
    /\ cohorts = SeededCohorts
    /\ classGroups = SeededClassGroups
    /\ courses = SeededCourses
    /\ scheduleEntries = SeededEntries
    /\ importRuns = <<>>
    /\ nextId = 200
    /\ imp = idle

InitResolve ==
    /\ InitSeededSchedule
    /\ assignments \in {t \in AssignmentTables(MaxRows) : UniqueAssignmentKeys(t)}
    /\ overrides \in {t \in OverrideTables(MaxRows - Cardinality(assignments)) :
                        UniqueOverrideKeys(t)}
    /\ cache = NoCache
    /\ catalogFiles = ShippedCatalog
    /\ NoAuthActivity
    /\ portal = NoView
    /\ coursePage = NoView
    /\ call = NoCall

NextResolve == GetPortalData \/ CourseDetailPage

SpecResolve == InitResolve /\ [][NextResolve]_vars

(***************************************************************************)
(* Readers one after another in one server process: every query and page   *)
(* render goes through loadKnowledge, whose cache outlives the request.    *)
(***************************************************************************)
\* guide documents that name lecturer b for course X instead of lecturer a
RevisedCatalog == [courseCode \in CourseCodes |-> IF courseCode = "X" THEN {"b"} ELSE {}]
CatalogVersions == {ShippedCatalog, RevisedCatalog}

\* the files under CATALOG_CSV_PATH and TROY_RESOURCES_DIR are replaced on disk
EditGuideDocuments ==
    /\ catalogFiles' \in CatalogVersions \ {catalogFiles}
    /\ UNCHANGED <<dbVars, lecturerVars, viewVars, imp, cache, authVars>>

\* CACHE_TTL_MS go by: Date.now() - cache.at < CACHE_TTL_MS no longer holds
CacheTtlElapses ==
    /\ cache.at = "fresh"
    /\ cache' = [cache EXCEPT !.at = "stale"]
    /\ UNCHANGED <<dbVars, lecturerVars, viewVars, imp, catalogFiles, authVars>>

\* the query or the page render returns; the next request can be served
SendResponse ==
    /\ portal # NoView \/ coursePage # NoView
    /\ portal' = NoView
    /\ coursePage' = NoView
    /\ UNCHANGED <<dbVars, lecturerVars, imp, call, knowledgeVars, authVars>>

\* the stored tables of the readers: course X taught by b in IT 01, or
\* lecturer b attached to course X for the semester, or neither
InitReaders ==
    /\ InitSeededSchedule
    /\ assignments \in {{}, {[courseCode |-> "X", semesterKey |-> "S1",
                               classGroupName |-> "IT 01", instructionCode |-> "",
                               lecturerId |-> "b", enabled |-> TRUE]}}
    /\ overrides \in {<<>>, <<[courseCode |-> "X", semesterKey |-> "S1",
                               lecturerId |-> "b", enabled |-> TRUE]>>}
    /\ cache = NoCache
    /\ catalogFiles = ShippedCatalog
    /\ NoAuthActivity
    /\ portal = NoView
    /\ coursePage = NoView
    /\ call = NoCall

NextReaders ==
    \/ GetPortalData
    \/ CourseDetailPage
    \/ SendResponse
    \/ EditGuideDocuments
    \/ CacheTtlElapses

SpecReaders == InitReaders /\ [][NextReaders]_vars

(***************************************************************************)
(* The workbook import: parseWorkbook / parseSheet, then writeImport step  *)
(* by step (every awaited database call is a step of its own).             *)
(***************************************************************************)
MaxImports == 2

\* SHEET_FILTER: ^SPRING\s+2026\s+K\d+$, case-insensitive
SheetMatchesFilter(sheetName) ==
    sheetName \in {"SPRING 2026 K69", "SPRING  2026 K69", "SPRING 2026 K70", "SPRING 2026 K71"}

\* sheetName.match(/K\d+/i), upper-cased; Null when the name has no such token
CohortCodeOfSheet(sheetName) ==
    CASE sheetName \in {"SPRING 2026 K69", "SPRING  2026 K69", "BACKUP K69"} -> "K69"
      [] sheetName = "SPRING 2026 K70" -> "K70"
      [] sheetName = "SPRING 2026 K71" -> "K71"
      [] OTHER -> Null

\* "SCHEDULE FOR <label> - K<n>" in the title cell, else SPRING <year> of the name
parseSemesterLabel(sheetName, title) ==
    CASE title = "SCHEDULE FOR FALL 2026 - K70" -> "FALL 2026"
      [] title = "Schedule for Spring 2026 - K69" -> "SPRING 2026"
      [] sheetName \in {"SPRING 2026 K69", "SPRING  2026 K69", "SPRING 2026 K70",
                        "SPRING 2026 K71"} -> "SPRING 2026"
      [] OTHER -> "NOTES"

\* upper-case, runs outside A-Z0-9 become "_", outer "_" trimmed
parseSemesterKey(label) ==
    CASE label = "SPRING 2026" -> "SPRING_2026"
      [] label = "FALL 2026" -> "FALL_2026"
      [] OTHER -> label

parseSheet(sheet) ==
    IF CohortCodeOfSheet(sheet.sheetName) = Null
    THEN [ok |-> FALSE, message |-> <<"Could not find cohort code in sheet", sheet.sheetName>>]
    ELSE IF ~sheet.hasHeader
    THEN [ok |-> FALSE,
          message |-> <<"Could not find schedule header row in sheet", sheet.sheetName>>]
    ELSE [ok |-> TRUE,
          sheetName |-> sheet.sheetName,
          cohortCode |-> CohortCodeOfSheet(sheet.sheetName),
          semesterLabel |-> parseSemesterLabel(sheet.sheetName, sheet.title),
          semesterKey |-> parseSemesterKey(parseSemesterLabel(sheet.sheetName, sheet.title)),
          startDate |-> sheet.startDate,
          endDate |-> sheet.endDate,
          events |-> sheet.events,
          catalog |-> sheet.catalog]

\* the sheets that match, each parsed in order; the first throw aborts
parseWorkbook(workbook) ==
    LET targetSheets == SelectSeq(workbook, LAMBDA sh : SheetMatchesFilter(sh.sheetName))
        parsed == [i \in 1..Len(targetSheets) |-> parseSheet(targetSheets[i])]
        failing == {i \in 1..Len(parsed) : ~parsed[i].ok}
    IN IF targetSheets = <<>>
       THEN [ok |-> FALSE, message |-> <<"No target sheets matched pattern SPRING 2026 Kxx.">>]
       ELSE IF failing # {}
       THEN [ok |-> FALSE,
             message |-> parsed[CHOOSE i \in failing : \A j \in failing : i <= j].message]
       ELSE [ok |-> TRUE, sheets |-> parsed]

Min(S) == CHOOSE x \in S : \A y \in S : x <= y
Max(S) == CHOOSE x \in S : \A y \in S : y <= x

StoredCounts ==
    [entries |-> Cardinality(scheduleEntries),
     courses |-> Cardinality(courses),
     classGroups |-> Cardinality(classGroups)]

\* the catch block of writeImport: the run becomes FAILED with the message
ImportFails(message) ==
    /\ importRuns' = [importRuns EXCEPT ![Len(importRuns)] =
            [@ EXCEPT !.status = "FAILED", !.note = message, !.finished = TRUE]]
    /\ imp' = [pc |-> "idle", invocations |-> imp.invocations,
               last |-> [result |-> "error", message |-> message, run |-> TRUE,
                         workbook |-> imp.job.workbook, prev |-> imp.job.prev,
                         before |-> imp.job.before, failedAt |-> imp.pc,
                         cohortId |-> imp.job.cohortId,
                         existingIds |-> imp.job.existingIds],
               job |-> NoJob]

\* importWorkbookFromBuffer up to the call of writeImport
StartImport(workbook) ==
    /\ imp.pc = "idle"
    /\ imp.invocations < MaxImports
    /\ LET parsed == parseWorkbook(workbook)
           prev == IF imp.last.result = "none" THEN NoImport
                   ELSE [result |-> imp.last.result, workbook |-> imp.last.workbook,
                         summary |-> IF imp.last.result = "ok" THEN imp.last.summary
                                     ELSE NoSummary]
           before == [semesters |-> semesters, courses |-> courses,
                      cohorts |-> cohorts, classGroups |-> classGroups,
                      entryIds |-> {e.id : e \in scheduleEntries},
                      counts |-> StoredCounts]
       IN IF ~parsed.ok
          THEN imp' = [pc |-> "idle", invocations |-> imp.invocations + 1,
                       last |-> [result |-> "error", message |-> parsed.message,
                                 run |-> FALSE, workbook |-> workbook, prev |-> prev,
                                 before |-> before, failedAt |-> "parse",
                                 cohortId |-> 0, existingIds |-> {}],
                       job |-> NoJob]
          ELSE imp' = [pc |-> "createRun", invocations |-> imp.invocations + 1,
                       last |-> imp.last,
                       job |-> [sheet |-> 1, workbook |-> workbook, prev |-> prev,
                                before |-> before, parsed |-> parsed.sheets,
                                semesterId |-> 0, cohortId |-> 0, existingIds |-> {},
                                pendingCodes |-> <<>>, classGroupIdByName |-> <<>>,
                                inserted |-> 0, skipped |-> 0,
                                totalEntries |-> 0, totalClassGroups |-> 0,
                                allCourseCodes |-> {}]]
    /\ UNCHANGED <<dbVars, lecturerVars, viewVars, knowledgeVars, authVars>>

\* prisma.importRun.create, status RUNNING
CreateImportRun ==
    /\ imp.pc = "createRun"
    /\ importRuns' = Append(importRuns,
            [id |-> nextId, status |-> "RUNNING",
             note |-> <<"Preparing import for", imp.job.parsed[1].semesterLabel>>,
             semesterId |-> NullNumber, finished |-> FALSE])
    /\ nextId' = nextId + 1
    /\ imp' = [imp EXCEPT !.pc = "semester"]
    /\ UNCHANGED <<semesters, cohorts, classGroups, courses, scheduleEntries,
                   lecturerVars, viewVars, knowledgeVars, authVars>>

\* the dates written to the semester: earliest start, latest end of the parse
ParsedStart(parsed) ==
    LET allStarts == {parsed[i].startDate : i \in 1..Len(parsed)} \ {NullNumber}
    IN IF allStarts = {} THEN NullNumber ELSE Min(allStarts)

ParsedEnd(parsed) ==
    LET allEnds == {parsed[i].endDate : i \in 1..Len(parsed)} \ {NullNumber}
    IN IF allEnds = {} THEN NullNumber ELSE Max(allEnds)

\* prisma.semester.upsert by key, with the first sheet's key and label
UpsertSemester ==
    /\ imp.pc = "semester"
    /\ LET parsed == imp.job.parsed
           key == parsed[1].semesterKey
           found == {r \in semesters : r.key = key}
           id == IF found = {} THEN nextId ELSE (CHOOSE r \in found : TRUE).id
           row == [id |-> id, key |-> key, label |-> parsed[1].semesterLabel,
                   startDate |-> ParsedStart(parsed), endDate |-> ParsedEnd(parsed)]
       IN /\ semesters' = (semesters \ found) \cup {row}
          /\ nextId' = IF found = {} THEN nextId + 1 ELSE nextId
          /\ imp' = [imp EXCEPT !.pc = "cohort", !.job.semesterId = id]
    /\ UNCHANGED <<cohorts, classGroups, courses, scheduleEntries, importRuns,
                   lecturerVars, viewVars, knowledgeVars, authVars>>

\* slip: the upsert never finds the stored cohort and creates another row
FindCohortNever(semesterId, code) ==
    {}

\* the where clause of cohort.upsert: semesterId_code
FindCohort(semesterId, code) ==
    {c \in cohorts : c.semesterId = semesterId /\ c.code = code}

\* slip: the cohort's stored class groups are not looked up before the rebuild
ExistingClassGroupIdsNone(cohortId) ==
    {}

\* prisma.classGroup.findMany where cohortId, select id
ExistingClassGroupIds(cohortId) ==
    {g.id : g \in {x \in classGroups : x.cohortId = cohortId}}

\* [...new Set(events.map(classGroupName))].sort(localeCompare)
GroupNames(events) ==
    LET names == {events[i].classGroupName : i \in 1..Len(events)}
    IN SelectSeq(GroupSeq, LAMBDA n : n \in names)

RECURSIVE Dedup(_)
Dedup(seq) ==
    IF seq = <<>> THEN <<>>
    ELSE LET init == Dedup(SubSeq(seq, 1, Len(seq) - 1))
             x == seq[Len(seq)]
         IN IF x \in Range(init) THEN init ELSE Append(init, x)

\* cohortCourseCodes: event codes, then catalog keys, in insertion order
CohortCourseCodes(parsedSheet) ==
    Dedup([i \in 1..Len(parsedSheet.events) |-> parsedSheet.events[i].courseCode]
          \o [i \in 1..Len(parsedSheet.catalog) |-> parsedSheet.catalog[i].code])

CurrentSheet == imp.job.parsed[imp.job.sheet]

\* prisma.cohort.upsert with update {}, then findMany of its class groups
UpsertCohort ==
    /\ imp.pc = "cohort"
    /\ LET found == FindCohort(imp.job.semesterId, CurrentSheet.cohortCode)
           id == IF found = {} THEN nextId ELSE (CHOOSE c \in found : TRUE).id
           existingIds == IF found = {} THEN {} ELSE ExistingClassGroupIds(id)
       IN /\ cohorts' = IF found = {}
                        THEN cohorts \cup {[id |-> id, semesterId |-> imp.job.semesterId,
                                            code |-> CurrentSheet.cohortCode]}
                        ELSE cohorts
          /\ nextId' = IF found = {} THEN nextId + 1 ELSE nextId
          /\ imp' = [imp EXCEPT !.pc = IF existingIds # {} THEN "deleteEntries"
                                       ELSE "createGroups",
                                !.job.cohortId = id,
                                !.job.existingIds = existingIds]
    /\ UNCHANGED <<semesters, classGroups, courses, scheduleEntries, importRuns,
                   lecturerVars, viewVars, knowledgeVars, authVars>>

\* prisma.scheduleEntry.deleteMany where classGroupId in existingIds
DeleteScheduleEntries ==
    /\ imp.pc = "deleteEntries"
    /\ scheduleEntries' = {e \in scheduleEntries : e.classGroupId \notin imp.job.existingIds}
    /\ imp' = [imp EXCEPT !.pc = "deleteGroups"]
    /\ UNCHANGED <<semesters, cohorts, classGroups, courses, importRuns, nextId,
                   lecturerVars, viewVars, knowledgeVars, authVars>>

\* prisma.classGroup.deleteMany where id in existingIds (entries cascade)
DeleteClassGroups ==
    /\ imp.pc = "deleteGroups"
    /\ classGroups' = {g \in classGroups : g.id \notin imp.job.existingIds}
    /\ scheduleEntries' = {e \in scheduleEntries : e.classGroupId \notin imp.job.existingIds}
    /\ imp' = [imp EXCEPT !.pc = "createGroups"]
    /\ UNCHANGED <<semesters, cohorts, courses, importRuns, nextId, lecturerVars, viewVars, knowledgeVars, authVars>>

\* prisma.classGroup.createMany for the sorted group names of the sheet;
\* a (cohortId, name) already stored violates the unique index
CreateClassGroups ==
    /\ imp.pc = "createGroups"
    /\ LET groupNames == GroupNames(CurrentSheet.events)
           clash == \E g \in classGroups :
                        g.cohortId = imp.job.cohortId /\ g.name \in Range(groupNames)
           codes == CohortCourseCodes(CurrentSheet)
       IN IF clash
          THEN /\ ImportFails(<<"Unique constraint failed", "ClassGroup">>)
               /\ UNCHANGED <<classGroups, nextId>>
          ELSE /\ classGroups' = classGroups \cup
                      {[id |-> nextId + i - 1, cohortId |-> imp.job.cohortId,
                        name |-> groupNames[i]] : i \in 1..Len(groupNames)}
               /\ nextId' = nextId + Len(groupNames)
               /\ imp' = [imp EXCEPT !.pc = "findGroups",
                                     !.job.pendingCodes = codes,
                                     !.job.totalClassGroups = @ + Len(groupNames)]
               /\ UNCHANGED importRuns
    /\ UNCHANGED <<semesters, cohorts, courses, scheduleEntries, lecturerVars, viewVars, knowledgeVars, authVars>>

\* prisma.classGroup.findMany where cohortId: the map classGroupIdByName
FindClassGroups ==
    /\ imp.pc = "findGroups"
    /\ LET cohortClassGroups == {g \in classGroups : g.cohortId = imp.job.cohortId}
       IN imp' = [imp EXCEPT
                     !.pc = IF imp.job.pendingCodes = <<>> THEN "entries" ELSE "courses",
                     !.job.classGroupIdByName =
                         [n \in {g.name : g \in cohortClassGroups} |->
                             (CHOOSE g \in cohortClassGroups : g.name = n).id]]
    /\ UNCHANGED <<dbVars, lecturerVars, viewVars, knowledgeVars, authVars>>

\* catalog.get(code); every field of a missing entry reads as undefined
NoMeta == [code |-> Null, nameEn |-> Null, nameVi |-> Null, credits |-> Null,
           prerequisite |-> Null]
CatalogMeta(parsedSheet, code) ==
    LET hits == {i \in 1..Len(parsedSheet.catalog) : parsedSheet.catalog[i].code = code}
    IN IF hits = {} THEN NoMeta ELSE parsedSheet.catalog[Max(hits)]

\* a truthy string: neither missing nor empty
Truthy(value) == value # Null /\ value # ""

\* slip: the update branch writes what the create branch writes
CourseUpdateOverwrites(row, meta) ==
    [row EXCEPT !.nameEn = meta.nameEn, !.nameVi = meta.nameVi,
                     !.credits = meta.credits, !.prerequisite = meta.prerequisite]

\* the update branch of course.upsert: only the supplied fields are written
CourseUpdate(row, meta) ==
    [row EXCEPT !.nameEn = IF Truthy(meta.nameEn) THEN meta.nameEn ELSE @,
                     !.nameVi = IF Truthy(meta.nameVi) THEN meta.nameVi ELSE @,
                     !.credits = IF meta.credits # Null THEN meta.credits ELSE @,
                     !.prerequisite = IF Truthy(meta.prerequisite)
                                      THEN meta.prerequisite ELSE @]

\* the create branch of course.upsert: meta?.field ?? null
CourseCreate(id, code, meta) ==
    [id |-> id, code |-> code, nameEn |-> meta.nameEn, nameVi |-> meta.nameVi,
     credits |-> meta.credits, prerequisite |-> meta.prerequisite]

\* one iteration of the loop over cohortCourseCodes: prisma.course.upsert
UpsertCourse ==
    /\ imp.pc = "courses"
    /\ LET code == Head(imp.job.pendingCodes)
           meta == CatalogMeta(CurrentSheet, code)
           found == {c \in courses : c.code = code}
       IN /\ courses' = IF found = {}
                        THEN courses \cup {CourseCreate(nextId, code, meta)}
                        ELSE (courses \ found) \cup {CourseUpdate(c, meta) : c \in found}
          /\ nextId' = IF found = {} THEN nextId + 1 ELSE nextId
          /\ imp' = [imp EXCEPT !.pc = IF Len(imp.job.pendingCodes) = 1
                                       THEN "entries" ELSE "courses",
                                !.job.pendingCodes = Tail(@),
                                !.job.allCourseCodes = @ \cup {code}]
    /\ UNCHANGED <<semesters, cohorts, classGroups, scheduleEntries, importRuns,
                   lecturerVars, viewVars, knowledgeVars, authVars>>

\* the rows pushed to entryData: events whose group and course resolve
EntryData(parsedSheet, classGroupIdByName, semesterId) ==
    LET courseIdByCode == [k \in {c.code : c \in courses} \cap Range(CohortCourseCodes(parsedSheet))
                           |-> (CHOOSE c \in courses : c.code = k).id]
        kept == SelectSeq(parsedSheet.events,
                          LAMBDA ev : /\ ev.classGroupName \in DOMAIN classGroupIdByName
                                      /\ ev.courseCode \in DOMAIN courseIdByCode)
    IN [i \in 1..Len(kept) |->
           [semesterId |-> semesterId,
            classGroupId |-> classGroupIdByName[kept[i].classGroupName],
            courseId |-> courseIdByCode[kept[i].courseCode],
            dayOfWeek |-> kept[i].dayOfWeek, startTime |-> kept[i].startTime,
            rawTime |-> kept[i].rawTime, room |-> kept[i].room,
            sourceRow |-> kept[i].sourceRow]]

\* the unique index of ScheduleEntry; a NULL start time never collides
EntryKey(e) ==
    <<e.semesterId, e.classGroupId, e.dayOfWeek, e.startTime, e.courseId, e.sourceRow>>

EntryKeyClash(entryData) ==
    \/ \E i, j \in 1..Len(entryData) :
          i # j /\ entryData[i].startTime # Null /\ EntryKey(entryData[i]) = EntryKey(entryData[j])
    \/ \E i \in 1..Len(entryData) : \E e \in scheduleEntries :
          entryData[i].startTime # Null /\ EntryKey(e) = EntryKey(entryData[i])

\* the foreign key of ScheduleEntry.classGroupId: the class group must exist
MissingClassGroup(entryData) ==
    \E i \in 1..Len(entryData) : \A g \in classGroups : g.id # entryData[i].classGroupId

\* slip: every parsed event is counted, inserted or not
CountedEntriesAllEvents(parsedSheet, entryData) ==
    Len(parsedSheet.events)

\* totalEntries += entryData.length
CountedEntries(parsedSheet, entryData) ==
    Len(entryData)

\* prisma.scheduleEntry.createMany, then on to the next sheet or the end
CreateScheduleEntries ==
    /\ imp.pc = "entries"
    /\ LET entryData == EntryData(CurrentSheet, imp.job.classGroupIdByName,
                                  imp.job.semesterId)
       IN IF EntryKeyClash(entryData)
          THEN /\ ImportFails(<<"Unique constraint failed", "ScheduleEntry">>)
               /\ UNCHANGED <<scheduleEntries, nextId>>
          ELSE IF MissingClassGroup(entryData)
          THEN /\ ImportFails(<<"Foreign key constraint failed", "ScheduleEntry">>)
               /\ UNCHANGED <<scheduleEntries, nextId>>
          ELSE /\ scheduleEntries' = scheduleEntries \cup
                      {[id |-> nextId + i - 1,
                        semesterId |-> entryData[i].semesterId,
                        classGroupId |-> entryData[i].classGroupId,
                        courseId |-> entryData[i].courseId,
                        dayOfWeek |-> entryData[i].dayOfWeek,
                        startTime |-> entryData[i].startTime,
                        rawTime |-> entryData[i].rawTime,
                        room |-> entryData[i].room,
                        sourceRow |-> entryData[i].sourceRow] : i \in 1..Len(entryData)}
               /\ nextId' = nextId + Len(entryData)
               /\ imp' = [imp EXCEPT !.pc = IF imp.job.sheet < Len(imp.job.parsed)
                                            THEN "cohort" ELSE "finish",
                                     !.job.sheet = IF imp.job.sheet < Len(imp.job.parsed)
                                                   THEN @ + 1 ELSE @,
                                     !.job.totalEntries =
                                         @ + CountedEntries(CurrentSheet, entryData),
                                     !.job.inserted = @ + Len(entryData),
                                     !.job.skipped =
                                         @ + Len(CurrentSheet.events) - Len(entryData)]
               /\ UNCHANGED importRuns
    /\ UNCHANGED <<semesters, cohorts, classGroups, courses, lecturerVars, viewVars, knowledgeVars, authVars>>

\* prisma.importRun.update to SUCCESS and the returned ImportSummary
FinishImport ==
    /\ imp.pc = "finish"
    /\ importRuns' = [importRuns EXCEPT ![Len(importRuns)] =
            [@ EXCEPT !.status = "SUCCESS", !.semesterId = imp.job.semesterId,
                      !.note = <<"Imported schedule entries", imp.job.totalEntries>>,
                      !.finished = TRUE]]
    /\ imp' = [pc |-> "idle", invocations |-> imp.invocations,
               last |-> [result |-> "ok", run |-> TRUE,
                         workbook |-> imp.job.workbook, prev |-> imp.job.prev,
                         before |-> imp.job.before,
                         parsed |-> imp.job.parsed,
                         inserted |-> imp.job.inserted, skipped |-> imp.job.skipped,
                         semesterId |-> imp.job.semesterId,
                         summary |-> [semesterKey |-> imp.job.parsed[1].semesterKey,
                                      semesterLabel |-> imp.job.parsed[1].semesterLabel,
                                      cohorts |-> [i \in 1..Len(imp.job.parsed) |->
                                                      imp.job.parsed[i].cohortCode],
                                      classGroups |-> imp.job.totalClassGroups,
                                      courses |-> Cardinality(imp.job.allCourseCodes),
                                      entries |-> imp.job.totalEntries]],
               job |-> NoJob]
    /\ UNCHANGED <<semesters, cohorts, classGroups, courses, scheduleEntries, nextId,
                   lecturerVars, viewVars, knowledgeVars, authVars>>

\* slip: the catch block restores the tables to their state before the import
DbCallRejectsRollsBack ==
    /\ imp.pc \in {"semester", "cohort", "deleteEntries", "deleteGroups", "createGroups",
                   "findGroups", "courses", "entries", "finish"}
    /\ ImportFails(<<"database call rejected">>)
    /\ cohorts' = imp.job.before.cohorts
    /\ classGroups' = imp.job.before.classGroups
    /\ scheduleEntries' = {e \in scheduleEntries : e.id \in imp.job.before.entryIds}
    /\ UNCHANGED <<semesters, courses, nextId, lecturerVars, viewVars, knowledgeVars, authVars>>

\* a database call inside the try block rejects: the catch block runs
DbCallRejects ==
    /\ imp.pc \in {"semester", "cohort", "deleteEntries", "deleteGroups", "createGroups",
                   "findGroups", "courses", "entries", "finish"}
    /\ ImportFails(<<"database call rejected">>)
    /\ UNCHANGED <<semesters, cohorts, classGroups, courses, scheduleEntries, nextId,
                   lecturerVars, viewVars, knowledgeVars, authVars>>

(***************************************************************************)
(* Workbooks offered to the importer                                       *)
(***************************************************************************)
Event(groupName, day, start, code, row) ==
    [classGroupName |-> groupName, dayOfWeek |-> day, startTime |-> start,
     rawTime |-> IF start = Null THEN "TBA" ELSE start, room |-> "A101",
     courseCode |-> code, sourceRow |-> row]

Sheet(name, title, header, start, end, events, catalog) ==
    [sheetName |-> name, title |-> title, hasHeader |-> header, startDate |-> start,
     endDate |-> end, events |-> events, catalog |-> catalog]

MetaX == [code |-> "X", nameEn |-> "Course X", nameVi |-> "", credits |-> "3",
          prerequisite |-> Null]
MetaY == [code |-> "Y", nameEn |-> Null, nameVi |-> "Mon Y", credits |-> Null,
          prerequisite |-> "X"]

\* a catalog row of course X that names it in Vietnamese only
MetaX2 == [code |-> "X", nameEn |-> Null, nameVi |-> "Mon X", credits |-> Null,
           prerequisite |-> Null]

\* cohort K69, one class group, two courses of which one is in the catalog
SheetA ==
    Sheet("SPRING 2026 K69", "", TRUE, 10, 20,
          <<Event("IT 01", "MON", "08:00", "X", 5), Event("IT 01", "TUE", Null, "Y", 6)>>,
          <<MetaX>>)
\* cohort K69 again with another class group and other dates
SheetA2 ==
    Sheet("SPRING 2026 K69", "Schedule for Spring 2026 - K69", TRUE, 12, 25,
          <<Event("IT 02", "MON", "08:00", "X", 5)>>, <<MetaY, MetaX2>>)
\* cohort K69 with a header row but no event below it
SheetA3 == Sheet("SPRING 2026 K69", "", TRUE, NullNumber, NullNumber, <<>>, <<>>)
\* a second sheet whose name yields cohort K69 as well
SheetB ==
    Sheet("SPRING  2026 K69", "", TRUE, 5, 15,
          <<Event("IT 01", "MON", "08:00", "Y", 7), Event("IT 02", "MON", "08:00", "Y", 7)>>,
          <<>>)
\* cohort K70 under a title that names another semester
SheetC ==
    Sheet("SPRING 2026 K70", "SCHEDULE FOR FALL 2026 - K70", TRUE, 30, 40,
          <<Event("IT 01", "WED", "13:00", "Y", 5)>>, <<MetaX>>)
SheetNoHeader == Sheet("SPRING 2026 K71", "", FALSE, NullNumber, NullNumber, <<>>, <<>>)
SheetNotes == Sheet("NOTES", "", FALSE, NullNumber, NullNumber, <<>>, <<>>)

Workbooks ==
    {<<SheetA>>, <<SheetA2>>, <<SheetA3>>, <<SheetA, SheetC>>, <<SheetC, SheetA2>>,
     <<SheetA, SheetB>>, <<SheetNotes, SheetA>>, <<SheetNoHeader>>, <<SheetNotes>>,
     <<SheetA, SheetNoHeader>>}

InitImport ==
    /\ semesters = {}
    /\ cohorts = {}
    /\ classGroups = {}
    /\ courses = {}
    /\ scheduleEntries = {}
    /\ importRuns = <<>>
    /\ nextId = 1
    /\ assignments = {}
    /\ overrides = <<>>
    /\ cache = NoCache
    /\ catalogFiles = ShippedCatalog
    /\ NoAuthActivity
    /\ portal = NoView
    /\ coursePage = NoView
    /\ call = NoCall
    /\ imp = idle

NextImport ==
    \/ \E workbook \in Workbooks : StartImport(workbook)
    \/ CreateImportRun
    \/ UpsertSemester
    \/ UpsertCohort
    \/ DeleteScheduleEntries
    \/ DeleteClassGroups
    \/ CreateClassGroups
    \/ FindClassGroups
    \/ UpsertCourse
    \/ CreateScheduleEntries
    \/ FinishImport
    \/ DbCallRejects

SpecImport == InitImport /\ [][NextImport]_vars

(***************************************************************************)
(* Admin writes to the schedule: POST and PATCH of /api/admin/import       *)
(***************************************************************************)
MaxAdminRows == 3
\* the first id the database hands out after the seeded rows
FirstFreeId == 200
AdminSourceRows == {5, 11}
AdminStartTimes == {Null, "08:00"}
Keep == "keep"

\* resolveScope: the semester by key, its cohort by code, and the class group
\* of that cohort by name; no result when one of them is missing
ResolveScope(semesterKeyRaw, cohortCodeRaw, classGroupNameRaw) ==
    {[semester |-> sem, cohort |-> c, classGroup |-> g] :
        sem \in {x \in semesters : x.key = NormalizeSemesterKey(semesterKeyRaw)},
        c \in cohorts, g \in classGroups} \cap
    {t \in [semester : semesters, cohort : cohorts, classGroup : classGroups] :
        /\ t.cohort.semesterId = t.semester.id
        /\ t.cohort.code = cohortCodeRaw
        /\ t.classGroup.cohortId = t.cohort.id
        /\ t.classGroup.name = NormalizeClassGroupName(classGroupNameRaw)}

\* the unique index of ScheduleEntry as the database enforces it: rows with a
\* NULL start time never collide
ViolatesEntryIndex(row, others) ==
    \E e \in others : row.startTime # Null /\ EntryKey(e) = EntryKey(row)

\* course.upsert of the admin route: a missing course is created without
\* metadata, a stored one is left as it is when no name is sent
AdminUpsertCourse(courseCode) ==
    IF \E c \in courses : c.code = courseCode THEN courses
    ELSE courses \cup {CourseCreate(nextId, courseCode, NoMeta)}

\* POST type "scheduleEntry"
AdminCreateScheduleEntry(classGroupName, courseCode, startTime, sourceRow) ==
    /\ nextId + 1 < FirstFreeId + MaxAdminRows
    /\ \E scope \in ResolveScope("S1", "K69", classGroupName) :
        LET created == \A c \in courses : c.code # courseCode
            courseId == IF created THEN nextId
                        ELSE (CHOOSE c \in courses : c.code = courseCode).id
            entryId == IF created THEN nextId + 1 ELSE nextId
            row == [id |-> entryId, semesterId |-> scope.semester.id,
                    classGroupId |-> scope.classGroup.id, courseId |-> courseId,
                    dayOfWeek |-> "MON", startTime |-> startTime,
                    rawTime |-> "TBA", room |-> "A101", sourceRow |-> sourceRow]
        IN /\ courses' = AdminUpsertCourse(courseCode)
           /\ IF ViolatesEntryIndex(row, scheduleEntries)
              THEN /\ UNCHANGED scheduleEntries
                   /\ nextId' = IF created THEN nextId + 1 ELSE nextId
              ELSE /\ scheduleEntries' = scheduleEntries \cup {row}
                   /\ nextId' = entryId + 1
    /\ UNCHANGED <<semesters, cohorts, classGroups, importRuns, lecturerVars, viewVars, knowledgeVars, authVars, imp>>

\* PATCH type "scheduleEntry": only the fields present in the body change
AdminUpdateScheduleEntry(id, startTime, sourceRow, classGroupName) ==
    /\ <<startTime, sourceRow, classGroupName>> # <<Keep, 0, Keep>>
    /\ \E currentEntry \in {e \in scheduleEntries : e.id = id} :
        LET currentGroup == CHOOSE g \in classGroups : g.id = currentEntry.classGroupId
            scopes == ResolveScope("S1", "K69",
                                   IF classGroupName = Keep THEN currentGroup.name
                                   ELSE classGroupName)
        IN /\ classGroupName # Keep => scopes # {}
           /\ LET target == IF classGroupName = Keep THEN currentEntry.classGroupId
                            ELSE (CHOOSE t \in scopes : TRUE).classGroup.id
                  row == [currentEntry EXCEPT
                             !.startTime = IF startTime = Keep THEN @ ELSE startTime,
                             !.sourceRow = IF sourceRow = 0 THEN @ ELSE sourceRow,
                             !.classGroupId = target]
              IN /\ row # currentEntry
                 /\ ~ViolatesEntryIndex(row, scheduleEntries \ {currentEntry})
                 /\ scheduleEntries' = (scheduleEntries \ {currentEntry}) \cup {row}
    /\ UNCHANGED <<semesters, cohorts, classGroups, courses, importRuns, nextId,
                   lecturerVars, viewVars, knowledgeVars, authVars, imp>>

\* the rows a copy writes: the source group's entries under the new group
CopiedEntries(sourceEntries, classGroupId, base) ==
    LET ids == CHOOSE f \in [sourceEntries -> base..(base + Cardinality(sourceEntries) - 1)] :
                   \A x, y \in sourceEntries : f[x] = f[y] => x = y
    IN {[e EXCEPT !.id = ids[e], !.classGroupId = classGroupId] : e \in sourceEntries}

\* the rows the copy upserts: the source group's enabled assignments of the
\* semester under the new class group name
CopiedAssignments(semesterKey, copyFrom, classGroupName) ==
    {[a EXCEPT !.classGroupName = classGroupName] :
        a \in {x \in assignments : /\ x.semesterKey = semesterKey
                                   /\ x.classGroupName = copyFrom
                                   /\ x.enabled}}

\* POST type "classGroup", with or without copyFromClassGroupName
AdminCreateClassGroup(classGroupName, copyFrom) ==
    /\ nextId + Cardinality(scheduleEntries) < FirstFreeId + MaxAdminRows
    /\ ResolveScope("S1", "K69", classGroupName) = {}
    /\ copyFrom # "" => ResolveScope("S1", "K69", copyFrom) # {}
    /\ \E sem \in semesters, c \in cohorts :
        /\ sem.key = "S1" /\ c.semesterId = sem.id /\ c.code = "K69"
        /\ LET name == NormalizeClassGroupName(classGroupName)
               sourceIds == {g.id : g \in {x \in classGroups :
                                 x.cohortId = c.id /\ x.name = copyFrom /\ copyFrom # ""}}
               sourceEntries == {e \in scheduleEntries :
                                    e.semesterId = sem.id /\ e.classGroupId \in sourceIds}
               copied == CopiedEntries(sourceEntries, nextId, nextId + 1)
               upserts == IF copyFrom = "" THEN {}
                          ELSE CopiedAssignments(sem.key, copyFrom, name)
           IN /\ classGroups' = classGroups \cup
                     {[id |-> nextId, cohortId |-> c.id, name |-> name]}
              /\ scheduleEntries' = scheduleEntries \cup copied
              /\ nextId' = nextId + 1 + Cardinality(sourceEntries)
              /\ assignments' =
                     {a \in assignments :
                         \A u \in upserts : AssignmentKey(a) # AssignmentKey(u)} \cup upserts
    /\ UNCHANGED <<semesters, cohorts, courses, importRuns, overrides, viewVars, knowledgeVars, authVars, imp>>

InitAdminSchedule ==
    /\ semesters = {r \in SeededSemesters : r.key = "S1"}
    /\ cohorts = SeededCohorts
    /\ classGroups = {g \in SeededClassGroups : g.name = "IT 01"}
    /\ courses = {c \in SeededCourses : c.code = "X"}
    /\ scheduleEntries = {e \in SeededEntries : e.id = 111}
    /\ importRuns = <<>>
    /\ nextId = FirstFreeId
    /\ assignments \in {{}, {[courseCode |-> "X", semesterKey |-> "S1",
                              classGroupName |-> "IT 01", instructionCode |-> "",
                              lecturerId |-> "a", enabled |-> TRUE]}}
    /\ overrides = <<>>
    /\ cache = NoCache
    /\ catalogFiles = ShippedCatalog
    /\ NoAuthActivity
    /\ portal = NoView
    /\ coursePage = NoView
    /\ call = NoCall
    /\ imp = idle

\* the ids a request may name: the seeded entry and every id handed out later
AdminEntryIds == {111} \cup FirstFreeId..(FirstFreeId + MaxAdminRows)

NextAdminSchedule ==
    \/ \E classGroupName \in ClassGroupNames, courseCode \in CourseCodes,
          startTime \in AdminStartTimes, sourceRow \in AdminSourceRows :
          AdminCreateScheduleEntry(classGroupName, courseCode, startTime, sourceRow)
    \/ \E id \in AdminEntryIds, startTime \in AdminStartTimes \cup {Keep},
          sourceRow \in AdminSourceRows \cup {0}, classGroupName \in ClassGroupNames \cup {Keep} :
          AdminUpdateScheduleEntry(id, startTime, sourceRow, classGroupName)
    \/ \E copyFrom \in {"", "IT 01"} : AdminCreateClassGroup("IT 02", copyFrom)

SpecAdminSchedule == InitAdminSchedule /\ [][NextAdminSchedule]_vars

(***************************************************************************)
(* An admin deletes a class group while an import is running.              *)
(***************************************************************************)
\* deleteClassGroupAssignments: deleteMany by semester key and class group name
DeleteClassGroupAssignments(semesterKey, classGroupNamesToDelete) ==
    {a \in assignments : ~(/\ a.semesterKey = semesterKey
                           /\ a.classGroupName \in classGroupNamesToDelete)}

\* DELETE type "classGroup": 404 without a resolved scope, otherwise the
\* assignments of the group go and the group goes with its entries (cascade)
AdminDeleteClassGroup(semesterKeyRaw, cohortCodeRaw, classGroupNameRaw) ==
    /\ ResolveScope(semesterKeyRaw, cohortCodeRaw, classGroupNameRaw) # {}
    /\ LET scope == CHOOSE t \in ResolveScope(semesterKeyRaw, cohortCodeRaw,
                                              classGroupNameRaw) : TRUE
       IN /\ assignments' = DeleteClassGroupAssignments(scope.semester.key,
                                                        {scope.classGroup.name})
          /\ classGroups' = classGroups \ {scope.classGroup}
          /\ scheduleEntries' =
                 {e \in scheduleEntries : e.classGroupId # scope.classGroup.id}
    /\ UNCHANGED <<semesters, cohorts, courses, importRuns, nextId, overrides,
                   viewVars, knowledgeVars, authVars, imp>>

\* the uploads of the interleaving: one cohort, one or two class groups
RaceWorkbooks == {<<SheetA>>, <<SheetB>>}

NextImportRace ==
    \/ \E workbook \in RaceWorkbooks : StartImport(workbook)
    \/ CreateImportRun
    \/ UpsertSemester
    \/ UpsertCohort
    \/ DeleteScheduleEntries
    \/ DeleteClassGroups
    \/ CreateClassGroups
    \/ FindClassGroups
    \/ UpsertCourse
    \/ CreateScheduleEntries
    \/ FinishImport
    \/ \E classGroupName \in ClassGroupNames :
          AdminDeleteClassGroup("SPRING_2026", "K69", classGroupName)

SpecImportRace == InitImport /\ [][NextImportRace]_vars

(***************************************************************************)
(* Attach and detach: POST and DELETE of /api/admin/course-lecturers       *)
(***************************************************************************)
MaxLecturerRows == 2

\* request bodies: a scope, raw texts for the keys, and the lecturer
LecturerRequests ==
    [scope : {"GLOBAL", "SEMESTER"}, courseCode : {"X"}, semesterKey : {"", "s1", "S2"},
     classGroupName : {"", "it 01"}, instructionCode : {"", " IHA-1 "},
     lecturerId : LecturerIds]

\* parseCourseAndLecturer and the GLOBAL check: the normalised keys, or no
\* result when the request is answered with 400
ParseCourseAndLecturer(body) ==
    LET semesterKey == NormalizeSemesterKey(body.semesterKey)
        classGroupName == NormalizeClassGroupName(body.classGroupName)
        instructionCode == NormalizeInstructionCode(body.instructionCode)
        rejected ==
            \/ body.scope = "SEMESTER" /\ semesterKey = ""
            \/ body.scope = "SEMESTER" /\ \A sem \in semesters : sem.key # semesterKey
            \/ body.scope = "GLOBAL" /\ (classGroupName # "" \/ instructionCode # "")
    IN IF rejected THEN {}
       ELSE {[courseCode |-> body.courseCode,
              semesterKey |-> IF body.scope = "GLOBAL" THEN "" ELSE semesterKey,
              classGroupName |-> classGroupName,
              instructionCode |-> instructionCode,
              lecturerId |-> body.lecturerId]}

\* slip: the override is inserted again instead of being updated in place
UpsertOverrideAppends(table, parsed, enabled) ==
    Append(table, [courseCode |-> parsed.courseCode, semesterKey |-> parsed.semesterKey,
                   lecturerId |-> parsed.lecturerId, enabled |-> enabled])

\* courseLecturerOverride.upsert by (courseCode, semesterKey, lecturerId)
UpsertOverride(table, parsed, enabled) ==
    LET row == [courseCode |-> parsed.courseCode, semesterKey |-> parsed.semesterKey,
                lecturerId |-> parsed.lecturerId, enabled |-> enabled]
        hits == {i \in 1..Len(table) : OverrideKey(table[i]) = OverrideKey(row)}
    IN IF hits = {} THEN Append(table, row)
       ELSE [i \in 1..Len(table) |-> IF i \in hits THEN row ELSE table[i]]

\* courseTeachingAssignment.upsert by the five-part key
UpsertAssignment(table, parsed, enabled) ==
    LET row == [courseCode |-> parsed.courseCode, semesterKey |-> parsed.semesterKey,
                classGroupName |-> parsed.classGroupName,
                instructionCode |-> parsed.instructionCode,
                lecturerId |-> parsed.lecturerId, enabled |-> enabled]
    IN {a \in table : AssignmentKey(a) # AssignmentKey(row)} \cup {row}

\* the table a request writes: the override table for a request without class
\* group and instruction code, the assignment table otherwise
WritesOverride(parsed) == parsed.classGroupName = "" /\ parsed.instructionCode = ""

OverridesAfter(table, body, enabled) ==
    IF ParseCourseAndLecturer(body) = {} THEN table
    ELSE LET parsed == CHOOSE x \in ParseCourseAndLecturer(body) : TRUE
         IN IF WritesOverride(parsed) THEN UpsertOverride(table, parsed, enabled) ELSE table

AssignmentsAfter(table, body, enabled) ==
    IF ParseCourseAndLecturer(body) = {} THEN table
    ELSE LET parsed == CHOOSE x \in ParseCourseAndLecturer(body) : TRUE
         IN IF WritesOverride(parsed) THEN table ELSE UpsertAssignment(table, parsed, enabled)

\* the two tables stay within the bound after the write
LecturerRowsWithinBound ==
    Cardinality(assignments') + Len(overrides') <= MaxLecturerRows

\* POST: attach
AttachLecturer(body) ==
    /\ ParseCourseAndLecturer(body) # {}
    /\ overrides' = OverridesAfter(overrides, body, TRUE)
    /\ assignments' = AssignmentsAfter(assignments, body, TRUE)
    /\ LecturerRowsWithinBound
    /\ UNCHANGED <<dbVars, viewVars, knowledgeVars, authVars, imp>>

\* DELETE: detach
DetachLecturer(body) ==
    /\ ParseCourseAndLecturer(body) # {}
    /\ overrides' = OverridesAfter(overrides, body, FALSE)
    /\ assignments' = AssignmentsAfter(assignments, body, FALSE)
    /\ LecturerRowsWithinBound
    /\ UNCHANGED <<dbVars, viewVars, knowledgeVars, authVars, imp>>

InitAdminLecturers ==
    /\ InitSeededSchedule
    /\ assignments = {}
    /\ overrides = <<>>
    /\ cache = NoCache
    /\ catalogFiles = ShippedCatalog
    /\ NoAuthActivity
    /\ portal = NoView
    /\ coursePage = NoView
    /\ call = NoCall

NextAdminLecturers ==
    \/ \E body \in LecturerRequests : AttachLecturer(body)
    \/ \E body \in LecturerRequests : DetachLecturer(body)

SpecAdminLecturers == InitAdminLecturers /\ [][NextAdminLecturers]_vars

(***************************************************************************)
(* Class groups of two cohorts of one semester: delete and rename by the   *)
(* admin route, with lecturers attached and detached in between.           *)
(***************************************************************************)
\* semester S1 with cohorts K69 (IT 01, IT 02) and K70 (IT 01), one entry of
\* course X in each class group
TwoCohorts == {[id |-> 11, semesterId |-> 1, code |-> "K69"],
               [id |-> 12, semesterId |-> 1, code |-> "K70"]}
TwoCohortClassGroups ==
    {[id |-> 21, cohortId |-> 11, name |-> "IT 01"],
     [id |-> 22, cohortId |-> 11, name |-> "IT 02"],
     [id |-> 23, cohortId |-> 12, name |-> "IT 01"]}
TwoCohortEntries ==
    {[id |-> 100 + g.id, semesterId |-> 1, classGroupId |-> g.id, courseId |-> 31,
      dayOfWeek |-> "MON", startTime |-> "08:00", rawTime |-> "08:00",
      room |-> "A101", sourceRow |-> g.id] : g \in TwoCohortClassGroups}

\* attach and detach requests that name a class group
ClassGroupLecturerRequests ==
    [scope : {"SEMESTER"}, courseCode : {"X"}, semesterKey : {"s1", "S2"},
     classGroupName : {"it 01", "it 02"}, instructionCode : {""},
     lecturerId : LecturerIds]

\* courseTeachingAssignment.updateMany of the rename: every row of the
\* semester with the old name gets the new one; the statement fails as a
\* whole, and changes nothing, when a renamed row would repeat a stored key
RenameClassGroupAssignments(semesterKey, oldClassGroupName, newClassGroupName) ==
    LET hit(a) == a.semesterKey = semesterKey /\ a.classGroupName = oldClassGroupName
        renamed == {IF hit(a) THEN [a EXCEPT !.classGroupName = newClassGroupName] ELSE a :
                        a \in assignments}
        clash == \E a \in assignments, b \in assignments :
                    /\ hit(a) /\ ~hit(b)
                    /\ AssignmentKey([a EXCEPT !.classGroupName = newClassGroupName])
                           = AssignmentKey(b)
    IN IF clash THEN assignments ELSE renamed

\* PATCH type "classGroup": the group is renamed, then the assignments of the
\* semester that carry the old name
AdminRenameClassGroup(semesterKeyRaw, cohortCodeRaw, classGroupNameRaw, newClassGroupNameRaw) ==
    /\ ResolveScope(semesterKeyRaw, cohortCodeRaw, classGroupNameRaw) # {}
    /\ LET scope == CHOOSE t \in ResolveScope(semesterKeyRaw, cohortCodeRaw,
                                              classGroupNameRaw) : TRUE
           newClassGroupName == NormalizeClassGroupName(newClassGroupNameRaw)
       IN /\ newClassGroupName # ""
          /\ newClassGroupName # scope.classGroup.name
          /\ \A g \in classGroups :
                ~(g.cohortId = scope.cohort.id /\ g.name = newClassGroupName)
          /\ classGroups' = (classGroups \ {scope.classGroup})
                \cup {[scope.classGroup EXCEPT !.name = newClassGroupName]}
          /\ assignments' = RenameClassGroupAssignments(scope.semester.key,
                                scope.classGroup.name, newClassGroupName)
    /\ UNCHANGED <<semesters, cohorts, courses, scheduleEntries, importRuns, nextId,
                   overrides, viewVars, knowledgeVars, authVars, imp>>

InitAdminClassGroups ==
    /\ semesters = SeededSemesters
    /\ cohorts = TwoCohorts
    /\ classGroups = TwoCohortClassGroups
    /\ courses = SeededCourses
    /\ scheduleEntries = TwoCohortEntries
    /\ importRuns = <<>>
    /\ nextId = 200
    /\ imp = idle
    /\ assignments = {}
    /\ overrides = <<>>
    /\ cache = NoCache
    /\ catalogFiles = ShippedCatalog
    /\ NoAuthActivity
    /\ portal = NoView
    /\ coursePage = NoView
    /\ call = NoCall

NextAdminClassGroups ==
    \/ \E body \in ClassGroupLecturerRequests : AttachLecturer(body)
    \/ \E body \in ClassGroupLecturerRequests : DetachLecturer(body)
    \/ \E cohortCode \in {"K69", "K70"}, classGroupName \in ClassGroupNames :
          AdminDeleteClassGroup("S1", cohortCode, classGroupName)
    \/ \E cohortCode \in {"K69", "K70"}, classGroupName \in ClassGroupNames,
          newClassGroupName \in {"it 01", "IT 02"} :
          AdminRenameClassGroup("S1", cohortCode, classGroupName, newClassGroupName)

SpecAdminClassGroups == InitAdminClassGroups /\ [][NextAdminClassGroups]_vars

(***************************************************************************)
(* Account login with new-device verification: POST /api/auth/login and    *)
(* POST /api/auth/verify-device                                            *)
(***************************************************************************)
MaxChallenges == 1
\* DEVICE_CODE_TTL_MS, in ticks of the clock
DeviceCodeTtl == 1
\* the clock runs until a code issued at the start has expired
MaxTime == DeviceCodeTtl + 1

AccountUsers == {"u1", "u2"}
LoginIdentities == {"u1", " U1", "u2", "student"}
LoginPasswords == {"pw1", "troy2026"}
DeviceIdsRaw == {"d1", " D1", "d2", ""}
\* what randomInt(100000, 1000000) draws, and what a request may submit
Codes == {"111111"}
CodesRaw == {"111111", "111 111", "222222"}

\* normalizeIdentity: trim, lower case
normalizeIdentity(raw) == IF raw = " U1" THEN "u1" ELSE raw

\* cleanDeviceId: trim, lower case, only a-z 0-9 . _ - kept; null when empty
cleanDeviceId(raw) ==
    CASE raw = " D1" -> "d1"
      [] raw = "" -> Null
      [] OTHER -> raw

\* cleanText(code).replace(/\s+/g, "")
cleanCode(raw) == IF raw = "111 111" THEN "111111" ELSE raw

\* hashPassword / verifyPassword against the stored hash
hashPassword(password) == <<"scrypt", password>>
PasswordHashOf(userId) == hashPassword("pw1")

\* hashVerificationCode: sha256 of secret and code
hashVerificationCode(code) == <<"sha256", code>>

\* validateDemoCredentials: the demo user "student"
validateDemoCredentials(identity, password) ==
    identity = "student" /\ password = "troy2026"

\* findAccountByIdentity
findAccountByIdentity(identity) ==
    {u \in AccountUsers : u = normalizeIdentity(identity)}

\* createSessionToken: two tokens issued one after the other differ (iat)
NextIssue == IF sessions = {} THEN 0 ELSE 1 - (CHOOSE x \in sessions : TRUE).issue

Session(mode, via, userId, deviceId) ==
    [mode |-> mode, via |-> via, user |-> userId, device |-> deviceId,
     issue |-> NextIssue]

\* POST /api/auth/login: demo credentials first, then authenticateAccountLogin.
\* A DeviceChallenge row carries, besides its columns, the number of
\* verify-device requests that were answered with a session for it.
Login(identity, password, deviceIdRaw) ==
    LET deviceId == cleanDeviceId(deviceIdRaw)
        found == findAccountByIdentity(identity)
    IN /\ IF validateDemoCredentials(identity, password)
          THEN /\ sessions' = {Session("demo", "login", identity, Null)}
               /\ UNCHANGED deviceChallenges
          ELSE IF \/ deviceId = Null
                  \/ found = {}
                  \/ \E u \in found : hashPassword(password) # PasswordHashOf(u)
          THEN UNCHANGED <<sessions, deviceChallenges>>
          ELSE LET user == CHOOSE u \in found : TRUE
               IN IF <<user, deviceId>> \in deviceTrust
                  THEN /\ sessions' =
                            {Session("account", "login", user, deviceId)}
                       /\ UNCHANGED deviceChallenges
                  ELSE /\ Cardinality(deviceChallenges) < MaxChallenges
                       /\ \E code \in Codes :
                            deviceChallenges' =
                                {IF c.userId = user /\ c.deviceId = deviceId
                                 THEN [c EXCEPT !.consumed = TRUE] ELSE c :
                                    c \in deviceChallenges}
                                \cup {[id |-> Cardinality(deviceChallenges) + 1,
                                       userId |-> user, deviceId |-> deviceId,
                                       codeHash |-> hashVerificationCode(code),
                                       expiresAt |-> now + DeviceCodeTtl,
                                       consumed |-> FALSE, verifications |-> 0]}
                       /\ UNCHANGED sessions
       /\ UNCHANGED <<dbVars, lecturerVars, viewVars, knowledgeVars, imp,
                      deviceTrust, now, verifying>>

\* slip: the device of the request is not compared with the challenge's
ChallengeAcceptsAnyDevice(challenge, code, deviceId) ==
    /\ ~challenge.consumed
    /\ ~(challenge.expiresAt < now)
    /\ hashVerificationCode(code) = challenge.codeHash

\* the checks of verifyDeviceChallenge on the row it read
ChallengeAccepts(challenge, code, deviceId) ==
    /\ ~challenge.consumed
    /\ challenge.deviceId = deviceId
    /\ ~(challenge.expiresAt < now)
    /\ hashVerificationCode(code) = challenge.codeHash

\* verifyDeviceChallenge up to the transaction: the row is read and checked
VerifyDeviceRead(slot, challengeId, codeRaw, deviceIdRaw) ==
    LET code == cleanCode(codeRaw)
        deviceId == cleanDeviceId(deviceIdRaw)
        found == {c \in deviceChallenges : c.id = challengeId}
    IN /\ verifying[slot].pc = "idle"
       /\ deviceId # Null
       /\ \E challenge \in found :
             /\ ChallengeAccepts(challenge, code, deviceId)
             /\ verifying' = [verifying EXCEPT ![slot] =
                    [pc |-> "commit", challengeId |-> challenge.id,
                     userId |-> challenge.userId, deviceId |-> deviceId,
                     challengeDeviceId |-> challenge.deviceId,
                     code |-> code]]
       /\ UNCHANGED <<dbVars, lecturerVars, viewVars, knowledgeVars, imp,
                      deviceTrust, deviceChallenges, now, sessions>>

\* the transaction (challenge consumed, device trusted) and the session cookie
VerifyDeviceCommit(slot) ==
    /\ verifying[slot].pc = "commit"
    /\ deviceChallenges' =
          {IF c.id = verifying[slot].challengeId
           THEN [c EXCEPT !.consumed = TRUE, !.verifications = @ + 1] ELSE c :
              c \in deviceChallenges}
    /\ deviceTrust' = deviceTrust \cup {<<verifying[slot].userId, verifying[slot].deviceId>>}
    /\ sessions' =
          {Session("account", "verify", verifying[slot].userId, verifying[slot].deviceId)}
    /\ verifying' = [verifying EXCEPT ![slot] = NoVerify]
    /\ UNCHANGED <<dbVars, lecturerVars, viewVars, knowledgeVars, imp, now>>

\* time passes
Tick ==
    /\ now < MaxTime
    /\ now' = now + 1
    /\ UNCHANGED <<dbVars, lecturerVars, viewVars, knowledgeVars, imp,
                   deviceTrust, deviceChallenges, sessions, verifying>>

InitAuth ==
    /\ semesters = {}
    /\ cohorts = {}
    /\ classGroups = {}
    /\ courses = {}
    /\ scheduleEntries = {}
    /\ importRuns = <<>>
    /\ nextId = 1
    /\ assignments = {}
    /\ overrides = <<>>
    /\ cache = NoCache
    /\ catalogFiles = ShippedCatalog
    /\ NoAuthActivity
    /\ portal = NoView
    /\ coursePage = NoView
    /\ imp = idle
    /\ call = NoCall

NextAuth ==
    \/ \E identity \in LoginIdentities, password \in LoginPasswords,
          deviceIdRaw \in DeviceIdsRaw \ {" D1"} : Login(identity, password, deviceIdRaw)
    \/ \E slot \in VerifySlots, challengeId \in 1..MaxChallenges, codeRaw \in CodesRaw,
          deviceIdRaw \in DeviceIdsRaw \ {""} :
          VerifyDeviceRead(slot, challengeId, codeRaw, deviceIdRaw)
    \/ \E slot \in VerifySlots : VerifyDeviceCommit(slot)
    \/ Tick

SpecAuth == InitAuth /\ [][NextAuth]_vars

(***************************************************************************)
(* middleware.ts: the gate in front of every page and API route            *)
(***************************************************************************)
\* request paths: routes of the app, the public ones, near misses of the
\* public ones, and paths the static test lets through
PagePaths == {"/", "/courses/CS101", "/admin/import", "/login", "/register",
              "/login/help", "/publications", "/robots.txt", "/sitemap.xml",
              "/favicon.ico", "/_next/static/app.js", "/_next/data/index.json"}
ApiPaths == {"/api/meta", "/api/admin/import", "/api/auth/login", "/api/auth/session",
             "/api/auth"}
RequestPaths == PagePaths \cup ApiPaths

\* pathname.startsWith(prefix), for the prefixes the middleware tests
StartsWith(pathname, prefix) ==
    CASE prefix = "/api/auth/" -> pathname \in {"/api/auth/login", "/api/auth/session"}
      [] prefix = "/api/" -> pathname \in ApiPaths
      [] prefix = "/api/admin" -> pathname = "/api/admin/import"
      [] prefix = "/admin" -> pathname = "/admin/import"
      [] prefix = "/_next" -> pathname \in {"/_next/static/app.js", "/_next/data/index.json"}
      [] prefix = "/_next/static" -> pathname = "/_next/static/app.js"
      [] prefix = "/favicon" -> pathname = "/favicon.ico"
      [] prefix = "/public" -> pathname = "/publications"
      [] OTHER -> FALSE

\* the cookie: none, or a token with its signature, expiry and payload
NoToken == [cookie |-> FALSE]
SessionTokens ==
    {NoToken} \cup
    [cookie : {TRUE}, signature : {"good", "bad"}, expired : BOOLEAN,
     username : {"ann"}, name : {"Ann", ""}, role : {"ADMIN", "STUDENT", "guest", Null}]

NoSession == [ok |-> FALSE]

\* parseRole: ADMIN and LECTURER are kept, anything else is STUDENT
parseRole(raw) == IF raw \in {"ADMIN", "LECTURER"} THEN raw ELSE "STUDENT"

\* slip: a payload without a name still gives a session
verifySessionTokenWithoutName(token) ==
    IF ~token.cookie THEN NoSession
    ELSE IF token.signature # "good" \/ token.expired THEN NoSession
    ELSE IF token.role = Null THEN NoSession
    ELSE [ok |-> TRUE, role |-> parseRole(token.role)]

\* verifySessionToken: jwtVerify (signature, expiry), then username, name and
\* role must be there
verifySessionToken(token) ==
    IF ~token.cookie THEN NoSession
    ELSE IF token.signature # "good" \/ token.expired THEN NoSession
    ELSE IF token.username = "" \/ token.name = "" \/ token.role = Null THEN NoSession
    ELSE [ok |-> TRUE, role |-> parseRole(token.role)]

isPublicPath(pathname) ==
    \/ pathname \in {"/login", "/register"}
    \/ StartsWith(pathname, "/api/auth/")

isStaticPath(pathname) ==
    \/ StartsWith(pathname, "/_next")
    \/ StartsWith(pathname, "/favicon")
    \/ StartsWith(pathname, "/public")
    \/ pathname \in {"/robots.txt", "/sitemap.xml"}

isAdminPath(pathname) ==
    StartsWith(pathname, "/admin") \/ StartsWith(pathname, "/api/admin")

\* config.matcher: paths the middleware is not run for
MatcherSkips(pathname) ==
    StartsWith(pathname, "/_next/static") \/ pathname = "/favicon.ico"

unauthorized(pathname) ==
    IF StartsWith(pathname, "/api/") THEN [kind |-> "json", status |-> 401]
    ELSE [kind |-> "redirect", to |-> "/login"]

forbidden(pathname) ==
    IF StartsWith(pathname, "/api/") THEN [kind |-> "json", status |-> 403]
    ELSE [kind |-> "redirect", to |-> "/?denied=admin"]

PassOn == [kind |-> "next"]

middleware(pathname, token) ==
    LET session == verifySessionToken(token)
    IN IF MatcherSkips(pathname) \/ isStaticPath(pathname) THEN PassOn
       ELSE IF isPublicPath(pathname)
       THEN IF pathname \in {"/login", "/register"} /\ session.ok
            THEN [kind |-> "redirect", to |-> "/"]
            ELSE PassOn
       ELSE IF ~session.ok THEN unauthorized(pathname)
       ELSE IF isAdminPath(pathname) /\ session.role # "ADMIN" THEN forbidden(pathname)
       ELSE PassOn

\* one request through the middleware
MiddlewareCall ==
    /\ call.fn = "middleware" /\ ~call.done
    /\ call' = [call EXCEPT !.done = TRUE,
                            !.result = middleware(call.arg.pathname, call.arg.token)]
    /\ UNCHANGED <<dbVars, lecturerVars, portal, coursePage, imp, knowledgeVars, authVars>>

InitMiddleware ==
    /\ semesters = {}
    /\ cohorts = {}
    /\ classGroups = {}
    /\ courses = {}
    /\ scheduleEntries = {}
    /\ importRuns = <<>>
    /\ nextId = 1
    /\ assignments = {}
    /\ overrides = <<>>
    /\ cache = NoCache
    /\ catalogFiles = ShippedCatalog
    /\ NoAuthActivity
    /\ portal = NoView
    /\ coursePage = NoView
    /\ imp = idle
    /\ call \in {[fn |-> "middleware", arg |-> [pathname |-> pathname, token |-> token],
                  done |-> FALSE, result |-> PassOn] :
                    pathname \in RequestPaths, token \in SessionTokens}

NextMiddleware == MiddlewareCall

SpecMiddleware == InitMiddleware /\ [][NextMiddleware]_vars

(***************************************************************************)
(* Text helpers of the importer and the catalog, applied to bounded texts  *)
(***************************************************************************)
MaxLabelTokens == 3
MaxPrefixLetters == 7
MaxDigits == 5

\* a class-group label as the scanner sees it: "IT" followed by a number, a
\* number that no "IT" precedes, a hyphen, a comma
LabelTokens ==
    [kind : {"IT", "num"}, n : {1, 3, 5, 30}] \cup [kind : {"-", ","}, n : {0}]

Labels == UNION {[1..len -> LabelTokens] : len \in 0..MaxLabelTokens}

\* `IT ${String(n).padStart(2, "0")}`
ClassGroupLabel(n) == <<"IT", n \div 10, n % 10>>

\* matchAll(/IT\s*0?(\d{1,2})/g): the numbers of the tokens that carry "IT"
LabelNumbers(label) ==
    LET hits == SelectSeq(label, LAMBDA t : t.kind = "IT")
    IN [i \in 1..Len(hits) |-> hits[i].n]

expandClassGroups(label) ==
    LET numbers == LabelNumbers(label)
        hyphen == \E i \in 1..Len(label) : label[i].kind = "-"
    IN IF numbers = <<>> THEN <<>>
       ELSE IF /\ Len(numbers) >= 2 /\ hyphen
               /\ numbers[1] < numbers[2] /\ numbers[2] - numbers[1] <= 20
       THEN [i \in 1..(numbers[2] - numbers[1] + 1) |-> ClassGroupLabel(numbers[1] + i - 1)]
       ELSE LET unique == Dedup(numbers)
            IN [i \in 1..Len(unique) |-> ClassGroupLabel(unique[i])]

\* course-code texts, character by character: letters in either case, an
\* optional blank, digits, and an optional last character
CourseCodeText(letters, blank, digits, last) ==
    [i \in 1..letters |-> IF i % 2 = 1 THEN "c" ELSE "S"]
    \o (IF blank THEN <<" ">> ELSE <<>>)
    \o [i \in 1..digits |-> "2"]
    \o (IF last = "" THEN <<>> ELSE <<last>>)

CourseCodeTexts ==
    {CourseCodeText(letters, blank, digits, last) :
        letters \in 0..MaxPrefixLetters, blank \in BOOLEAN, digits \in 0..MaxDigits,
        last \in {"", "a", "-"}}

UpperChar(c) ==
    CASE c = "c" -> "C"
      [] c = "a" -> "A"
      [] OTHER -> c

IsLetter(c) == c \in {"C", "S", "A"}
IsDigit(c) == c = "2"

\* cleanCell(raw).toUpperCase() with all whitespace removed
CompactText(raw) ==
    SelectSeq([i \in 1..Len(raw) |-> UpperChar(raw[i])], LAMBDA c : c # " ")

\* the number of leading characters of a text that are letters
RECURSIVE LeadingLetters(_)
LeadingLetters(text) ==
    IF text = <<>> \/ ~IsLetter(Head(text)) THEN 0 ELSE 1 + LeadingLetters(Tail(text))

AllDigits(text) == \A i \in 1..Len(text) : IsDigit(text[i])

NoCode == [ok |-> FALSE, text |-> <<>>]

\* the importer's normalizeCourseCode: ^([A-Z]{2,4})(\d{3,4})$ on the compact text
normalizeCourseCode(raw) ==
    LET compact == CompactText(raw)
        k == LeadingLetters(compact)
        rest == SubSeq(compact, k + 1, Len(compact))
    IN IF k \in 2..4 /\ Len(rest) \in 3..4 /\ AllDigits(rest)
       THEN [ok |-> TRUE, text |-> SubSeq(compact, 1, k) \o <<" ">> \o rest]
       ELSE NoCode

\* the catalog's normalizeCourseCode: ^([A-Z]{2,6})(\d{3,4}[A-Z]?)$
normalizeCourseCodeCatalog(raw) ==
    LET compact == CompactText(raw)
        k == LeadingLetters(compact)
        rest == SubSeq(compact, k + 1, Len(compact))
        digits == IF rest # <<>> /\ IsLetter(rest[Len(rest)])
                  THEN SubSeq(rest, 1, Len(rest) - 1) ELSE rest
    IN IF k \in 2..6 /\ Len(digits) \in 3..4 /\ AllDigits(digits)
       THEN [ok |-> TRUE, text |-> SubSeq(compact, 1, k) \o <<" ">> \o rest]
       ELSE NoCode

\* a call of expandClassGroups on a label
ExpandClassGroupsCall ==
    /\ call.fn = "expandClassGroups" /\ ~call.done
    /\ call' = [call EXCEPT !.done = TRUE, !.result = expandClassGroups(call.arg)]
    /\ UNCHANGED <<dbVars, lecturerVars, portal, coursePage, imp, knowledgeVars, authVars>>

\* parseScheduleCell on a cell whose first line is the text: the cell is
\* skipped when the importer's normalizeCourseCode rejects the line
ParseScheduleCellCall ==
    /\ call.fn = "parseScheduleCell" /\ ~call.done
    /\ call' = [call EXCEPT !.done = TRUE, !.result = normalizeCourseCode(call.arg),
                            !.skipped = ~normalizeCourseCode(call.arg).ok]
    /\ UNCHANGED <<dbVars, lecturerVars, portal, coursePage, imp, knowledgeVars, authVars>>

\* a call of the catalog's normalizeCourseCode
NormalizeCourseCodeCall ==
    /\ call.fn = "normalizeCourseCode" /\ ~call.done
    /\ call' = [call EXCEPT !.done = TRUE, !.result = normalizeCourseCodeCatalog(call.arg)]
    /\ UNCHANGED <<dbVars, lecturerVars, portal, coursePage, imp, knowledgeVars, authVars>>

\* decodeCatalogCsv works on the file's text; the model keeps a text as a
\* sequence of chunks, each standing for one run of characters:
\*   "plain"              ASCII text
\*   "mojibake4"          four accented letters read as Latin-1 (four times marker 1)
\*   "mojibakeKhoaHoc"    the first known-good phrase read as Latin-1 (marker 2 once)
\*   "mojibakeTiengViet"  the second known-good phrase read as Latin-1 (marker 2 once)
\*   "cp1252TiengViet"    the same phrase read as Windows-1252 (marker 2 once)
\*   "KhoaHoc"            the first known-good phrase, correctly decoded
\*   "replacement4"       four U+FFFD characters (four times marker 5)
MaxTextChunks == 3
TextChunks == {"plain", "mojibake4", "mojibakeKhoaHoc", "mojibakeTiengViet",
               "cp1252TiengViet", "KhoaHoc", "replacement4"}
CatalogBuffers ==
    [bom : BOOLEAN,
     chunks : UNION {[1..n -> TextChunks] : n \in 0..MaxTextChunks}]

\* buffer.toString("utf8") without a leading U+FEFF
DecodeUtf8(buffer) == buffer.chunks

\* the matches of the five mojibakeMarkers in a chunk
ChunkMarkerHits(chunk) ==
    CASE chunk \in {"mojibake4", "replacement4"} -> 4
      [] chunk \in {"mojibakeKhoaHoc", "mojibakeTiengViet", "cp1252TiengViet"} -> 1
      [] OTHER -> 0

RECURSIVE MarkerHits(_)
MarkerHits(text) ==
    IF text = <<>> THEN 0 ELSE ChunkMarkerHits(Head(text)) + MarkerHits(Tail(text))

\* Buffer.from(text, "latin1").toString("utf8") on a chunk: the low byte of
\* every character, read as UTF-8; bytes that are no UTF-8 become U+FFFD
RepairChunk(chunk) ==
    CASE chunk = "plain" -> "plain"
      [] chunk = "mojibake4" -> "accented4"
      [] chunk = "mojibakeKhoaHoc" -> "KhoaHoc"
      [] chunk = "mojibakeTiengViet" -> "TiengViet"
      [] chunk = "cp1252TiengViet" -> "TiengVi?!t"
      [] chunk = "KhoaHoc" -> "KhoaH?c"
      [] chunk = "replacement4" -> "replacement4"

Repair(text) == [i \in 1..Len(text) |-> RepairChunk(text[i])]

\* slip: every repaired text is committed
CommitsRepairAlways(repaired) == TRUE

\* repaired.includes(first phrase) || repaired.includes(second phrase)
CommitsRepair(repaired) ==
    \E i \in 1..Len(repaired) : repaired[i] \in {"KhoaHoc", "TiengViet"}

decodeCatalogCsv(buffer) ==
    LET text == DecodeUtf8(buffer)
        repaired == Repair(text)
    IN IF MarkerHits(text) >= 8 /\ CommitsRepair(repaired) THEN repaired ELSE text

\* a call of decodeCatalogCsv
DecodeCatalogCsvCall ==
    /\ call.fn = "decodeCatalogCsv" /\ ~call.done
    /\ call' = [call EXCEPT !.done = TRUE, !.result = decodeCatalogCsv(call.arg)]
    /\ UNCHANGED <<dbVars, lecturerVars, portal, coursePage, imp, knowledgeVars, authVars>>

InitText ==
    /\ semesters = {}
    /\ cohorts = {}
    /\ classGroups = {}
    /\ courses = {}
    /\ scheduleEntries = {}
    /\ importRuns = <<>>
    /\ nextId = 1
    /\ assignments = {}
    /\ overrides = <<>>
    /\ cache = NoCache
    /\ catalogFiles = ShippedCatalog
    /\ NoAuthActivity
    /\ portal = NoView
    /\ coursePage = NoView
    /\ imp = idle
    /\ call \in {[fn |-> "expandClassGroups", arg |-> label, done |-> FALSE,
                  result |-> <<>>] : label \in Labels}
          \cup {[fn |-> fn, arg |-> text, done |-> FALSE, result |-> NoCode,
                 skipped |-> FALSE] :
                    fn \in {"parseScheduleCell", "normalizeCourseCode"},
                    text \in CourseCodeTexts}
          \cup {[fn |-> "decodeCatalogCsv", arg |-> buffer, done |-> FALSE,
                 result |-> <<>>] : buffer \in CatalogBuffers}

NextText ==
    \/ ExpandClassGroupsCall
    \/ ParseScheduleCellCall
    \/ NormalizeCourseCodeCall
    \/ DecodeCatalogCsvCall

SpecText == InitText /\ [][NextText]_vars

(***************************************************************************)
(* parseSheet: the rows below the schedule header, read one by one         *)
(***************************************************************************)
MaxBodyRows == 3

\* the day columns of DAY_COLUMN_MAP the model keeps, in column order
DayColumns == <<"MON", "TUE">>

NoHint == <<>>

\* a schedule cell: empty, or a course code with or without "IT nn" next to
\* the time (hint 0 stands for no such text)
ScheduleCells == [course : {"", "X"}, hint : {0}] \cup [course : {"X"}, hint : {3, 5}]

\* parseScheduleCell: null for a cell without a course code, else the code
\* and the normalised class hint
parseScheduleCell(cell) ==
    IF cell.course = "" THEN [ok |-> FALSE]
    ELSE [ok |-> TRUE, courseCode |-> cell.course,
          classHint |-> IF cell.hint = 0 THEN NoHint ELSE ClassGroupLabel(cell.hint)]

\* first columns: a class-group label, a session label, a remark, the footer
DeclareOneAndThree == <<[kind |-> "IT", n |-> 1], [kind |-> ",", n |-> 0], [kind |-> "IT", n |-> 3]>>
DeclareFive == <<[kind |-> "IT", n |-> 5]>>
EmptyCells == [k \in 1..Len(DayColumns) |-> [course |-> "", hint |-> 0]]

BodyRows ==
    {[first |-> "label", label |-> label, cells |-> EmptyCells] :
        label \in {DeclareOneAndThree, DeclareFive}}
    \cup {[first |-> first, label |-> <<>>, cells |-> EmptyCells] :
            first \in {"remark", "footer"}}
    \cup {[first |-> "morning", label |-> <<>>, cells |-> cells] :
            cells \in [1..Len(DayColumns) -> ScheduleCells]}

SheetBodies == UNION {[1..len -> BodyRows] : len \in 0..MaxBodyRows}

\* /tba\s*=|website for registering|contact customer service/i
IsFooterRow(row) == row.first = "footer"

\* looksLikeClassGroupRow: an "IT nn" in the first column and no session word
looksLikeClassGroupRow(row) == row.first = "label" /\ LabelNumbers(row.label) # <<>>

\* getSessionPeriod
getSessionPeriod(row) == IF row.first = "morning" THEN "MORNING" ELSE "UNKNOWN"

\* slip: a hinted cell also replaces the declared groups
ParseCellHintSticks(state, cell, dayOfWeek, rowIndex) ==
    LET parsedCell == parseScheduleCell(cell)
        targetGroups == IF ~parsedCell.ok THEN <<>>
                        ELSE IF parsedCell.classHint # NoHint
                        THEN <<parsedCell.classHint>>
                        ELSE state.currentGroups
    IN [currentGroups |-> IF parsedCell.ok /\ parsedCell.classHint # NoHint
                          THEN <<parsedCell.classHint>> ELSE state.currentGroups,
        events |-> state.events \o
            [i \in 1..Len(targetGroups) |->
                [classGroupName |-> targetGroups[i], dayOfWeek |-> dayOfWeek,
                 session |-> "MORNING", courseCode |-> parsedCell.courseCode,
                 sourceRow |-> rowIndex + 1]]]

\* one cell of a session row: the events pushed for its target groups
ParseCell(state, cell, dayOfWeek, rowIndex) ==
    LET parsedCell == parseScheduleCell(cell)
        targetGroups == IF ~parsedCell.ok THEN <<>>
                        ELSE IF parsedCell.classHint # NoHint
                        THEN <<parsedCell.classHint>>
                        ELSE state.currentGroups
    IN [currentGroups |-> state.currentGroups,
        events |-> state.events \o
            [i \in 1..Len(targetGroups) |->
                [classGroupName |-> targetGroups[i], dayOfWeek |-> dayOfWeek,
                 session |-> "MORNING", courseCode |-> parsedCell.courseCode,
                 sourceRow |-> rowIndex + 1]]]

\* the cells of one row, in column order
RECURSIVE ParseCells(_, _, _, _)
ParseCells(state, cells, column, rowIndex) ==
    IF column > Len(cells) THEN state
    ELSE ParseCells(ParseCell(state, cells[column], DayColumns[column], rowIndex),
                    cells, column + 1, rowIndex)

\* the row loop of parseSheet from the row after the header (the header is
\* row 0 of the sheet, so the k-th row below it has index k)
RECURSIVE ParseRows(_, _, _)
ParseRows(state, rows, rowIndex) ==
    IF rowIndex > Len(rows) \/ IsFooterRow(rows[rowIndex]) THEN state
    ELSE IF looksLikeClassGroupRow(rows[rowIndex])
    THEN ParseRows([state EXCEPT !.currentGroups = expandClassGroups(rows[rowIndex].label)],
                   rows, rowIndex + 1)
    ELSE IF getSessionPeriod(rows[rowIndex]) = "UNKNOWN"
    THEN ParseRows(state, rows, rowIndex + 1)
    ELSE ParseRows(ParseCells(state, rows[rowIndex].cells, 1, rowIndex), rows, rowIndex + 1)

parseSheetEvents(rows) ==
    ParseRows([currentGroups |-> <<>>, events |-> <<>>], rows, 1).events

\* a call of parseSheet on the rows of one sheet
ParseSheetCall ==
    /\ call.fn = "parseSheet" /\ ~call.done
    /\ call' = [call EXCEPT !.done = TRUE, !.result = parseSheetEvents(call.arg)]
    /\ UNCHANGED <<dbVars, lecturerVars, portal, coursePage, imp, knowledgeVars, authVars>>

InitParse ==
    /\ semesters = {}
    /\ cohorts = {}
    /\ classGroups = {}
    /\ courses = {}
    /\ scheduleEntries = {}
    /\ importRuns = <<>>
    /\ nextId = 1
    /\ assignments = {}
    /\ overrides = <<>>
    /\ cache = NoCache
    /\ catalogFiles = ShippedCatalog
    /\ NoAuthActivity
    /\ portal = NoView
    /\ coursePage = NoView
    /\ imp = idle
    /\ call \in {[fn |-> "parseSheet", arg |-> rows, done |-> FALSE, result |-> <<>>] :
                    rows \in SheetBodies}

NextParse == ParseSheetCall

SpecParse == InitParse /\ [][NextParse]_vars

(***************************************************************************)
(* Schedule queries over the schedules one class group can hold            *)
(***************************************************************************)
MaxSlotEntries == 3

\* what one stored entry of the class group can be: a day, a start time or
\* none, and a course
SlotShapes ==
    [dayOfWeek : {"MON", "TUE"}, startTime : {Null, "08:00", "13:00"}, courseId : {31, 32}]

\* class group IT 01 of the seeded cohort with up to MaxSlotEntries entries,
\* each on its own source row
InitConflicts ==
    /\ semesters = {r \in SeededSemesters : r.key = "S1"}
    /\ cohorts = SeededCohorts
    /\ classGroups = {g \in SeededClassGroups : g.name = "IT 01"}
    /\ courses = SeededCourses
    /\ \E len \in 0..MaxSlotEntries : \E shapes \in [1..len -> SlotShapes] :
          scheduleEntries =
              {[id |-> 100 + i, semesterId |-> 1, classGroupId |-> 21,
                courseId |-> shapes[i].courseId, dayOfWeek |-> shapes[i].dayOfWeek,
                startTime |-> shapes[i].startTime, rawTime |-> "TBA", room |-> "A101",
                sourceRow |-> i] : i \in 1..len}
    /\ importRuns = <<>>
    /\ nextId = FirstFreeId
    /\ assignments = {}
    /\ overrides = <<>>
    /\ cache = NoCache
    /\ catalogFiles = ShippedCatalog
    /\ NoAuthActivity
    /\ portal = NoView
    /\ coursePage = NoView
    /\ call = NoCall
    /\ imp = idle

NextConflicts == GetPortalData

SpecConflicts == InitConflicts /\ [][NextConflicts]_vars

(***************************************************************************)
(* Properties of lecturer resolution, stated on the last schedule query    *)
(* and on the tables it read.                                              *)
(***************************************************************************)
Queried == portal.kind = "portal"

\* the enabled assignment rows of a course in the scope the query fetched:
\* the selected semester, or every semester when the semester filter was lost
InScopeAssignments(courseCode) ==
    {r \in assignments :
        /\ r.enabled
        /\ r.courseCode = courseCode
        /\ portal.asgFilter => r.semesterKey = portal.semesterKey}

\* a row applies to an entry when each field it gives equals the entry's
Applies(r, classGroupName, instructionCode) ==
    /\ r.classGroupName \in {"", classGroupName}
    /\ r.instructionCode \in {"", instructionCode}

Specificity(r) ==
    (IF r.classGroupName = "" THEN 0 ELSE 2) + (IF r.instructionCode = "" THEN 0 ELSE 1)

ApplicableRows(e) ==
    {r \in InScopeAssignments(e.courseCode) :
        Applies(r, portal.classGroupName, e.instructionCode)}

MostSpecificRows(e) ==
    {r \in ApplicableRows(e) : \A o \in ApplicableRows(e) : Specificity(o) <= Specificity(r)}

NoDuplicates(s) == \A i, j \in 1..Len(s) : s[i] = s[j] => i = j

\* C1: when the in-scope enabled rows of a course are exactly A (both fields
\* wildcard) and B (a class group, no instruction code), an entry of B's class
\* group resolves to B's lecturer alone and an entry of any other class group
\* resolves to A's lecturer alone, whatever the entry's instruction code.
C1_GroupRowBeatsWildcardRow ==
    Queried =>
        \A id \in DOMAIN portal.entries :
            LET e == portal.entries[id]
                rows == InScopeAssignments(e.courseCode)
            IN \A A, B \in rows :
                (/\ rows = {A, B}
                 /\ A.classGroupName = "" /\ A.instructionCode = ""
                 /\ B.classGroupName # "" /\ B.instructionCode = "")
                => e.lecturers = IF portal.classGroupName = B.classGroupName
                                 THEN <<B.lecturerId>>
                                 ELSE <<A.lecturerId>>

C1_Witness ==
    /\ Queried
    /\ portal.classGroupName = "IT 01"
    /\ \E id \in DOMAIN portal.entries, A, B \in assignments :
        /\ portal.entries[id].courseCode = "X"
        /\ InScopeAssignments("X") = {A, B}
        /\ A.classGroupName = "" /\ A.instructionCode = "" /\ A.lecturerId = "a"
        /\ B.classGroupName = "IT 01" /\ B.instructionCode = "" /\ B.lecturerId = "b"
        /\ portal.entries[id].instructionCode = "IHA1"
        /\ portal.entries[id].lecturers = <<"b">>

\* C2: every in-scope row that applies to an entry and reaches the highest
\* specificity among the applying rows has its lecturer in the entry's result.
C2_AllTiedRowsReturned ==
    Queried =>
        \A id \in DOMAIN portal.entries :
            \A r \in MostSpecificRows(portal.entries[id]) :
                r.lecturerId \in Range(portal.entries[id].lecturers)

C2_Witness ==
    /\ Queried
    /\ \E id \in DOMAIN portal.entries, r1, r2 \in assignments :
        /\ r1.lecturerId # r2.lecturerId
        /\ r1.classGroupName = "IT 01" /\ r2.classGroupName = "IT 01"
        /\ r1.instructionCode = "" /\ r2.instructionCode = ""
        /\ {r1, r2} \subseteq MostSpecificRows(portal.entries[id])
        /\ portal.entries[id].instructionCode = ""
        /\ Range(portal.entries[id].lecturers) = {"a", "b"}

\* C3 as stated: the fallback is used only when the course has no enabled
\* assignment row at all in the scope of the query.
C3_FallbackOnlyWithoutRows ==
    Queried =>
        \A id \in DOMAIN portal.entries :
            portal.entries[id].resolved = <<>>
            => InScopeAssignments(portal.entries[id].courseCode) = {}

\* C3 amended: the fallback is used exactly when no enabled in-scope row of
\* the course applies to the entry (none exists, or each is rejected by its
\* class group or instruction code); the entry then carries the fallback set.
C3_FallbackIffNoRowApplies ==
    Queried =>
        \A id \in DOMAIN portal.entries :
            LET e == portal.entries[id]
            IN /\ (e.resolved = <<>>) <=> (ApplicableRows(e) = {})
               /\ ApplicableRows(e) = {} => Range(e.lecturers) = portal.fallback[e.courseCode]
               /\ ApplicableRows(e) # {} => e.lecturers = e.resolved

C3_Witness ==
    /\ Queried
    /\ \E id \in DOMAIN portal.entries :
        LET e == portal.entries[id]
        IN /\ InScopeAssignments(e.courseCode) # {}
           /\ ApplicableRows(e) = {}
           /\ e.lecturers # <<>>
           /\ Range(e.lecturers) = portal.fallback[e.courseCode]

\* C4: an entry's lecturers are those of one tier alone, the most specific
\* applying rows when there are any and the fallback set otherwise, and no
\* lecturer id occurs twice.
C4_OneTierNoDuplicates ==
    Queried =>
        \A id \in DOMAIN portal.entries :
            LET e == portal.entries[id]
                scoped == {r.lecturerId : r \in MostSpecificRows(e)}
            IN /\ NoDuplicates(e.lecturers)
               /\ Range(e.lecturers) =
                    IF scoped # {} THEN scoped ELSE portal.fallback[e.courseCode]

C4_Witness ==
    /\ Queried
    /\ \E id \in DOMAIN portal.entries :
        LET e == portal.entries[id]
            scoped == {r.lecturerId : r \in MostSpecificRows(e)}
        IN /\ scoped # {}
           /\ portal.fallback[e.courseCode] \ scoped # {}
           /\ Cardinality(MostSpecificRows(e)) > Cardinality(scoped)
           /\ Range(e.lecturers) = scoped

PageRendered == coursePage.kind = "course"

\* what the schedule query returns (as a set) for an entry of the course in
\* the class group with the instruction code, semester filters in force
EntryLevelLecturers(courseCode, semesterKey, classGroupName, instructionCode) ==
    LET rows == CHOOSE o \in Orderings(FetchTeachingAssignments(
                    semesterKey, {courseCode}, classGroupName, TRUE)) : TRUE
        fallback == fallbackLecturerIdsByCourse({courseCode},
                    FetchCourseLecturerOverrides(semesterKey, {courseCode}, TRUE))
    IN Range(EntryLecturers(
            resolveLecturersForEntry(courseCode, classGroupName, instructionCode, rows),
            fallback[courseCode]))

\* C5: the course page's teaching team is the union, over the class groups
\* (and instruction codes) observed for the course in the semester, of what
\* the schedule query's resolver returns for them.  Stated for the pages that
\* observed a class group, with no override row stored, so that the two sides
\* can differ only in how they use the assignment rows and the catalog.
C5_TeamIsUnionOfEntryResolutions ==
    (/\ PageRendered /\ coursePage.hints # {}
     /\ coursePage.bundleFilter /\ coursePage.asgFilter
     /\ overrides = <<>>)
    => Range(coursePage.teachingTeam) =
        UNION {EntryLevelLecturers(coursePage.courseCode, coursePage.semesterKey,
                                   h.classGroupName, h.instructionCode) :
               h \in coursePage.hints}

\* whether the id is in the set the overrides at the positions idx leave
DecidedBy(idx, courseCode, lecturerId) ==
    IF idx = {} THEN lecturerId \in CatalogLecturerIds(courseCode)
    ELSE overrides[Max(idx)].enabled

PortalOverridePositions(courseCode, lecturerId) ==
    {i \in 1..Len(overrides) :
        /\ overrides[i].courseCode = courseCode
        /\ overrides[i].lecturerId = lecturerId
        /\ portal.ovrFilter => overrides[i].semesterKey = portal.semesterKey}

BundleOverridePositions(courseCode, lecturerId) ==
    {i \in 1..Len(overrides) :
        /\ overrides[i].courseCode = courseCode
        /\ overrides[i].lecturerId = lecturerId
        /\ coursePage.bundleFilter => overrides[i].semesterKey = ""}

\* C6: a lecturer id is in a course's fallback set exactly when the last
\* fetched override row about it (in storage order) is enabled or, with no
\* such row, when the catalog lists it; the schedule query's fallback sets
\* and the bundle's course lecturers both follow this rule.
C6_LatestOverrideDecides ==
    /\ Queried =>
        \A c \in DOMAIN portal.fallback, l \in LecturerIds :
            l \in portal.fallback[c] <=> DecidedBy(PortalOverridePositions(c, l), c, l)
    /\ PageRendered =>
        \A l \in LecturerIds :
            l \in coursePage.bundleLecturers
                <=> DecidedBy(BundleOverridePositions(coursePage.courseCode, l),
                              coursePage.courseCode, l)

C6_Witness ==
    /\ Queried
    /\ \E i, j \in PortalOverridePositions("X", "a") :
        /\ i < j
        /\ overrides[i].enabled /\ ~overrides[j].enabled
        /\ "a" \notin portal.fallback["X"]
    /\ \E id \in DOMAIN portal.entries :
        /\ portal.entries[id].courseCode = "X"
        /\ portal.entries[id].lecturers = <<>>

\* C7: in a schedule query, whenever an entry falls back to the overrides, a
\* global override (semesterKey "") that is the only override row about its
\* course and lecturer puts the lecturer in the entry's result when enabled
\* and keeps it out when disabled.
C7_GlobalOverrideAppliesInEverySemester ==
    Queried =>
        \A id \in DOMAIN portal.entries, i \in 1..Len(overrides) :
            LET e == portal.entries[id]
                o == overrides[i]
            IN (/\ e.resolved = <<>>
                /\ o.semesterKey = ""
                /\ o.courseCode = e.courseCode
                /\ \A j \in 1..Len(overrides) :
                    (overrides[j].courseCode = o.courseCode
                     /\ overrides[j].lecturerId = o.lecturerId) => j = i)
               => (o.lecturerId \in Range(e.lecturers) <=> o.enabled)

(***************************************************************************)
(* Properties of the workbook import                                       *)
(***************************************************************************)
ImportDone == imp.pc = "idle" /\ imp.last.result = "ok"

\* the last two invocations both succeeded and were given the same workbook
SameWorkbookTwice ==
    /\ ImportDone
    /\ imp.last.prev.result = "ok"
    /\ imp.last.prev.workbook = imp.last.workbook

SummaryCounts(summary) ==
    [entries |-> summary.entries, courses |-> summary.courses,
     classGroups |-> summary.classGroups]

\* C8: when the same workbook is imported twice in succession and both imports
\* succeed, the stored numbers of schedule entries, courses and class groups
\* after the second import equal those after the first, and so do the counts
\* of the two returned summaries.
C8_ReimportKeepsCounts ==
    SameWorkbookTwice =>
        /\ StoredCounts = imp.last.before.counts
        /\ SummaryCounts(imp.last.summary) = SummaryCounts(imp.last.prev.summary)

C8_Witness ==
    /\ SameWorkbookTwice
    /\ Len(imp.last.workbook) = 2
    /\ StoredCounts.entries >= 2
    /\ StoredCounts.classGroups >= 2

\* the sheets of the last import that were written to a stored cohort row
SheetsOfCohort(c) ==
    {i \in 1..Len(imp.last.parsed) : imp.last.parsed[i].cohortCode = c.code}

ReimportedCohorts ==
    {c \in imp.last.before.cohorts :
        c.semesterId = imp.last.semesterId /\ SheetsOfCohort(c) # {}}

EntryIsEvent(e, ev) ==
    /\ \E g \in classGroups : g.id = e.classGroupId /\ g.name = ev.classGroupName
    /\ \E k \in courses : k.id = e.courseId /\ k.code = ev.courseCode
    /\ e.dayOfWeek = ev.dayOfWeek
    /\ e.startTime = ev.startTime
    /\ e.rawTime = ev.rawTime
    /\ e.room = ev.room
    /\ e.sourceRow = ev.sourceRow

\* C9: after a successful import, every cohort that was stored before and is
\* named by a sheet of the import is still the same row and the only row of
\* its (semester, code); its class groups and schedule entries are exactly
\* those of the last sheet parsed for it, all of them created by this import,
\* and no entry refers to one of its earlier class groups.
C9_CohortKeptGroupsRebuilt ==
    ImportDone =>
        \A c \in ReimportedCohorts :
            LET latest == imp.last.parsed[Max(SheetsOfCohort(c))]
                groups == {g \in classGroups : g.cohortId = c.id}
                entries == {e \in scheduleEntries : e.classGroupId \in {g.id : g \in groups}}
                oldGroupIds == {g.id : g \in {x \in imp.last.before.classGroups :
                                                 x.cohortId = c.id}}
            IN /\ c \in cohorts
               /\ \A d \in cohorts : (d.semesterId = c.semesterId /\ d.code = c.code) => d = c
               /\ {g.name : g \in groups} = Range(GroupNames(latest.events))
               /\ Cardinality(groups) = Len(GroupNames(latest.events))
               /\ \A g \in groups : g.id \notin oldGroupIds
               /\ \A e \in scheduleEntries : e.classGroupId \notin oldGroupIds
               /\ \A e \in entries : e.id \notin imp.last.before.entryIds
               /\ Cardinality(entries) = Len(latest.events)
               /\ \A i \in 1..Len(latest.events) :
                    \E e \in entries : EntryIsEvent(e, latest.events[i])

C9_Witness ==
    /\ ImportDone
    /\ \E c \in ReimportedCohorts :
        /\ \E g \in imp.last.before.classGroups :
            /\ g.cohortId = c.id
            /\ g.name \notin {x.name : x \in {y \in classGroups : y.cohortId = c.id}}
        /\ \E e \in scheduleEntries :
            \E g \in classGroups : g.cohortId = c.id /\ e.classGroupId = g.id
        /\ imp.last.before.entryIds # {}

\* C10: once an invocation has returned, the ImportRun table holds one row per
\* invocation made so far, and the row of the last invocation is SUCCESS when
\* it completed and FAILED with the raised message when it failed.
C10_OneRunPerInvocation ==
    (imp.pc = "idle" /\ imp.invocations > 0) =>
        /\ Len(importRuns) = imp.invocations
        /\ imp.last.result = "ok" => importRuns[Len(importRuns)].status = "SUCCESS"
        /\ imp.last.result = "error" =>
              /\ importRuns[Len(importRuns)].status = "FAILED"
              /\ importRuns[Len(importRuns)].note = imp.last.message

\* the step in which writeImport's catch block ends a running import
ImportFailure ==
    /\ imp.pc # "idle"
    /\ imp'.pc = "idle"
    /\ imp'.last.result = "error"

C12_EntryTupleUnique ==
    \A e1, e2 \in scheduleEntries : EntryKey(e1) = EntryKey(e2) => e1 = e2

\* a step that carries out the attach (enabled) or detach request of a body
LecturerRequestStep(body, enabled) ==
    /\ ParseCourseAndLecturer(body) # {}
    /\ overrides' = OverridesAfter(overrides, body, enabled)
    /\ assignments' = AssignmentsAfter(assignments, body, enabled)

\* C13: after a step that carries out an attach or a detach request, carrying
\* out the same request once more would leave the override table and the
\* assignment table exactly as that step left them.
C13_RepeatedRequestChangesNothing ==
    [][\A body \in LecturerRequests, enabled \in BOOLEAN :
          LecturerRequestStep(body, enabled) =>
             /\ OverridesAfter(overrides', body, enabled) = overrides'
             /\ AssignmentsAfter(assignments', body, enabled) = assignments']_vars

\* both tables hold a row written by a request, one of them switched off
C13_Witness ==
    /\ \E i \in 1..Len(overrides) : ~overrides[i].enabled
    /\ \E a \in assignments : a.enabled /\ a.classGroupName = "IT 01"
    /\ Cardinality(assignments) + Len(overrides) = MaxLecturerRows

\* a label made of a class-group token, a hyphen and a second number, with or
\* without "IT" before the second number, the second at most 20 above the first
HyphenatedPair(label) ==
    /\ Len(label) = 3
    /\ label[1].kind = "IT"
    /\ label[2].kind = "-"
    /\ label[3].kind \in {"IT", "num"}
    /\ label[1].n < label[3].n
    /\ label[3].n - label[1].n <= 20

\* C14: expandClassGroups turns a hyphenated pair such as "IT 01-05" into the
\* class groups of every number from the first to the second, in order.
C14_HyphenatedPairExpands ==
    (call.fn = "expandClassGroups" /\ call.done /\ HyphenatedPair(call.arg)) =>
        call.result = [i \in 1..(call.arg[3].n - call.arg[1].n + 1) |->
                          ClassGroupLabel(call.arg[1].n + i - 1)]

\* the compact text is 2 to 6 letters followed by 3 or 4 digits
ClaimedCourseCode(raw) ==
    LET compact == CompactText(raw)
        k == LeadingLetters(compact)
        rest == SubSeq(compact, k + 1, Len(compact))
    IN k \in 2..6 /\ Len(rest) \in 3..4 /\ AllDigits(rest)

\* C15: normalizeCourseCode, in the importer's cell parser and in the catalog,
\* accepts a text exactly when its compact upper-case form is 2 to 6 letters
\* followed by 3 or 4 digits, returns the letters, a blank and the digits, and
\* a schedule cell is skipped exactly when its first line is rejected.
C15_CourseCodeAcceptance ==
    (call.fn \in {"parseScheduleCell", "normalizeCourseCode"} /\ call.done) =>
        LET compact == CompactText(call.arg)
            k == LeadingLetters(compact)
        IN /\ call.result.ok <=> ClaimedCourseCode(call.arg)
           /\ call.result.ok =>
                 call.result.text = SubSeq(compact, 1, k) \o <<" ">>
                                    \o SubSeq(compact, k + 1, Len(compact))
           /\ call.fn = "parseScheduleCell" => (call.skipped <=> ~ClaimedCourseCode(call.arg))

\* the course codes of the returned entries at a day and start time
CodesAtSlot(day, startTime) ==
    {portal.entries[id].courseCode :
        id \in {x \in DOMAIN portal.entries :
                   /\ portal.entries[x].dayOfWeek = day
                   /\ portal.entries[x].startTime = startTime}}

ConflictsAtSlot(day, startTime) ==
    {i \in 1..Len(portal.conflicts) :
        /\ portal.conflicts[i].dayOfWeek = day
        /\ portal.conflicts[i].startTime = startTime}

\* C16: in a schedule query a slot (day with a start time) of the returned
\* entries has a conflict exactly when its entries carry more than one course
\* code; it then has one conflict, which lists exactly the slot's codes, each
\* once; and every conflict belongs to such a slot.
C16_ConflictIffSeveralCourses ==
    Queried =>
        /\ \A id \in DOMAIN portal.entries :
              LET e == portal.entries[id]
                  codes == CodesAtSlot(e.dayOfWeek, e.startTime)
                  hits == ConflictsAtSlot(e.dayOfWeek, e.startTime)
              IN e.startTime # Null =>
                    /\ hits # {} <=> Cardinality(codes) > 1
                    /\ Cardinality(hits) <= 1
                    /\ \A i \in hits :
                          /\ Range(portal.conflicts[i].courses) = codes
                          /\ Len(portal.conflicts[i].courses) = Cardinality(codes)
        /\ \A i \in 1..Len(portal.conflicts) :
              /\ portal.conflicts[i].startTime # Null
              /\ \E id \in DOMAIN portal.entries :
                    /\ portal.entries[id].dayOfWeek = portal.conflicts[i].dayOfWeek
                    /\ portal.entries[id].startTime = portal.conflicts[i].startTime

\* a query whose slot holds the same course twice and a second course
C16_Witness ==
    /\ Queried
    /\ Len(portal.conflicts) = 1
    /\ Len(portal.conflicts[1].courses) = 2
    /\ Cardinality({id \in DOMAIN portal.entries :
                       /\ portal.entries[id].dayOfWeek = portal.conflicts[1].dayOfWeek
                       /\ portal.entries[id].startTime = portal.conflicts[1].startTime}) >= 3

\* the sheets of the last import whose semester key is the given one
SheetsOfKey(key) ==
    {i \in 1..Len(imp.last.parsed) : imp.last.parsed[i].semesterKey = key}

\* C17: after a successful import the Semester of the import's key starts at
\* the earliest start date and ends at the latest end date among the row
\* stored before (if any) and the import's sheets of that key, and carries the
\* label of the last of those sheets.
C17_SemesterDatesMerged ==
    ImportDone =>
        LET key == imp.last.summary.semesterKey
            row == CHOOSE r \in semesters : r.key = key
            stored == {r \in imp.last.before.semesters : r.key = key}
            starts == ({r.startDate : r \in stored}
                       \cup {imp.last.parsed[i].startDate : i \in SheetsOfKey(key)})
                      \ {NullNumber}
            ends == ({r.endDate : r \in stored}
                     \cup {imp.last.parsed[i].endDate : i \in SheetsOfKey(key)})
                    \ {NullNumber}
        IN /\ row.startDate = IF starts = {} THEN NullNumber ELSE Min(starts)
           /\ row.endDate = IF ends = {} THEN NullNumber ELSE Max(ends)
           /\ row.label = imp.last.parsed[Max(SheetsOfKey(key))].semesterLabel

\* ---- C18 ----
\* C18: an event whose class group or course resolves to no stored row is
\* left out without failing the import, and the entries count of the summary
\* is the number of rows the import inserted: parsed events minus left out ones.
ParsedEvents(parsedSheets) ==
    LET RECURSIVE Total(_)
        Total(i) == IF i = 0 THEN 0 ELSE Len(parsedSheets[i].events) + Total(i - 1)
    IN Total(Len(parsedSheets))

C18_SummaryCountsInsertedEntries ==
    ImportDone =>
        /\ imp.last.summary.entries = imp.last.inserted
        /\ imp.last.inserted + imp.last.skipped = ParsedEvents(imp.last.parsed)

\* an import that succeeded although it left an event out and inserted another
C18_Witness ==
    /\ ImportDone
    /\ imp.last.skipped > 0
    /\ imp.last.inserted > 0

\* ---- C19 ----
\* the values the parse supplies for a field of a course: the non-empty ones
\* of the catalog entry of that course, over every sheet of the workbook
SuppliedValues(parsedSheets, code, field) ==
    {CatalogMeta(parsedSheets[i], code)[field] : i \in 1..Len(parsedSheets)} \ {Null, ""}

MetadataFields == {"nameEn", "nameVi", "credits", "prerequisite"}

\* C19: after an import, a course that was stored before it still has its id
\* and code, and each metadata field either keeps its stored value or holds a
\* value the parse supplies for it; a field the parse leaves empty is kept.
C19_OnlySuppliedFieldsOverwritten ==
    ImportDone =>
        \A before \in imp.last.before.courses :
            \E after \in courses :
                /\ after.id = before.id
                /\ after.code = before.code
                /\ \A field \in MetadataFields :
                      \/ after[field] = before[field]
                      \/ after[field] \in SuppliedValues(imp.last.parsed, before.code, field)

\* an import rewrote one field of a stored course and kept another, stored
\* with a value, for which the catalog row of the course is empty
C19_Witness ==
    /\ ImportDone
    /\ \E before \in imp.last.before.courses, after \in courses :
          /\ after.id = before.id
          /\ \E changed \in MetadataFields, kept \in MetadataFields :
                /\ after[changed] # before[changed]
                /\ before[kept] \notin {Null, ""}
                /\ after[kept] = before[kept]
                /\ SuppliedValues(imp.last.parsed, before.code, kept) = {}
                /\ \E i \in 1..Len(imp.last.parsed) :
                      \E j \in 1..Len(imp.last.parsed[i].catalog) :
                          imp.last.parsed[i].catalog[j].code = before.code

\* ---- C20 ----
\* a query or a page render has just produced its result
ResolutionStep ==
    \/ portal = NoView /\ portal' # NoView
    \/ coursePage = NoView /\ coursePage' # NoView

\* the fallback lecturers the query would list from the files on disk and the
\* stored overrides alone
FallbackFromCommittedState(view) ==
    [c \in DOMAIN view.fallback |->
        ApplyOverrides(catalogFiles[c], c,
            FetchCourseLecturerOverrides(NormalizeSemesterKey(view.semesterKey),
                                         DOMAIN view.fallback, view.ovrFilter), 1)]

\* C20: a resolution (schedule query or course page) writes no stored table
\* and no other shared state, and what it returns is what it would return run
\* alone against the stored tables and the catalog as they are.
C20_ResolutionWritesNothing ==
    [][ResolutionStep =>
          /\ UNCHANGED <<dbVars, lecturerVars, cache, catalogFiles>>
          /\ portal' # NoView => portal'.fallback = FallbackFromCommittedState(portal')]_vars

\* ---- C21 ----
Decoded == call.fn = "decodeCatalogCsv" /\ call.done

\* C21: decodeCatalogCsv returns the repaired text only when the signature
\* (eight marker matches) is there and the repaired text holds a known-good
\* phrase, and it returns the decoded text as it is in every other case.
C21_RepairOnlyWhenKnownGood ==
    Decoded =>
        LET text == DecodeUtf8(call.arg)
            signature == MarkerHits(text) >= 8
            knownGood == \E i \in 1..Len(text) :
                            RepairChunk(text[i]) \in {"KhoaHoc", "TiengViet"}
        IN /\ signature /\ knownGood => call.result = Repair(text)
           /\ ~(signature /\ knownGood) => call.result = text

\* a text with the signature but no known-good phrase came back as it was,
\* although its repair would have changed it
C21_Witness ==
    /\ Decoded
    /\ MarkerHits(DecodeUtf8(call.arg)) >= 8
    /\ call.result = DecodeUtf8(call.arg)
    /\ Repair(DecodeUtf8(call.arg)) # DecodeUtf8(call.arg)

\* ---- C22 ----
Gated == call.fn = "middleware" /\ call.done

\* a token that is signed with the secret, not expired and names its user
ValidToken(token) ==
    /\ token.cookie
    /\ token.signature = "good" /\ ~token.expired
    /\ token.username # "" /\ token.name # "" /\ token.role # Null

Refused(pathname, response) ==
    IF pathname \in ApiPaths THEN response = [kind |-> "json", status |-> 401]
    ELSE response = [kind |-> "redirect", to |-> "/login"]

PublicPaths == {"/login", "/register", "/api/auth/login", "/api/auth/session"}
StaticPaths == {"/publications", "/robots.txt", "/sitemap.xml", "/favicon.ico",
                "/_next/static/app.js", "/_next/data/index.json"}

IssuedAccountSessions == {x \in sessions' \ sessions : x.mode = "account"}

\* a verify-device request in flight that passed the checks for this session
VerifiedFor(session) ==
    \E slot \in VerifySlots :
        /\ verifying[slot].pc = "commit"
        /\ verifying[slot].userId = session.user
        /\ verifying[slot].deviceId = session.device
        /\ verifying[slot].challengeDeviceId = session.device

\* a verify-device request passes its checks in this step
PassesChecks(slot) == verifying[slot].pc = "idle" /\ verifying'[slot].pc = "commit"

\* C23: an account session is issued for a device either by a login from a
\* device already trusted for the user, or to a verify-device request whose
\* code matched a challenge of that user and device; and a request passes
\* only when the challenge it names is, as it is read, unconsumed, unexpired,
\* created for the device of the request and holds the hash of the code.
C23_SessionOnlyForTrustedOrVerified ==
    [][/\ \A session \in IssuedAccountSessions :
             \/ session.via = "login" /\ <<session.user, session.device>> \in deviceTrust
             \/ session.via = "verify" /\ VerifiedFor(session)
       /\ \A slot \in VerifySlots :
             PassesChecks(slot) =>
                \E c \in deviceChallenges :
                    /\ c.id = verifying'[slot].challengeId
                    /\ c.userId = verifying'[slot].userId
                    /\ c.deviceId = verifying'[slot].deviceId
                    /\ ~c.consumed
                    /\ c.expiresAt >= now
                    /\ c.codeHash = hashVerificationCode(verifying'[slot].code)]_vars

\* a verification gave user u1 a session for device d1 after a challenge for
\* that user and device; no other device and no other user is trusted
C23_Witness ==
    /\ \E x \in sessions : x.via = "verify" /\ x.user = "u1" /\ x.device = "d1"
    /\ \E c \in deviceChallenges : c.userId = "u1" /\ c.deviceId = "d1" /\ c.consumed
    /\ deviceTrust = {<<"u1", "d1">>}

\* ---- C27 ----
\* C27: a device challenge yields at most one successful verification.
C27_OneVerificationPerChallenge ==
    \A c \in deviceChallenges : c.verifications <= 1

\* ---- C24 ----
\* the key of the Semester row a cohort row is stored under
SemesterKeyOfCohort(cohort) ==
    (CHOOSE sem \in semesters : sem.id = cohort.semesterId).key

\* the cohort rows the last import wrote its sheets under
CohortsWrittenFor(parsedSheet) ==
    {c \in cohorts : c.code = parsedSheet.cohortCode /\ c.semesterId = imp.last.semesterId}

\* C24: after a successful import every parsed sheet's cohort (and with it
\* its class groups and schedule entries) is stored under the Semester whose
\* key is derived from that sheet's own semester label.
C24_SheetUnderOwnSemester ==
    ImportDone =>
        \A i \in 1..Len(imp.last.parsed) :
            \A c \in CohortsWrittenFor(imp.last.parsed[i]) :
                /\ SemesterKeyOfCohort(c) = imp.last.parsed[i].semesterKey
                /\ \A g \in classGroups : \A e \in scheduleEntries :
                      g.cohortId = c.id /\ e.classGroupId = g.id =>
                          \E sem \in semesters :
                              sem.id = e.semesterId /\ sem.key = imp.last.parsed[i].semesterKey

\* ---- C25 ----
ParsedRows == call.fn = "parseSheet" /\ call.done

\* the rows the loop reads: those before the first footer row
RowsRead(rows) ==
    {r \in 1..Len(rows) : \A q \in 1..r : rows[q].first # "footer"}

\* the class groups of the last declaration row above row r
DeclaredAbove(rows, r) ==
    LET above == {d \in 1..(r - 1) : rows[d].first = "label"}
    IN IF above = {} THEN {}
       ELSE Range(expandClassGroups(rows[Max(above)].label))

\* the class groups the events of one cell were pushed for
GroupsOfCell(events, r, column) ==
    {events[i].classGroupName : i \in {j \in 1..Len(events) :
        events[j].sourceRow = r + 1 /\ events[j].dayOfWeek = DayColumns[column]}}

\* C25: a cell with a class hint emits events for the hinted group only, and
\* every cell without a hint, in the same row and in the rows that follow,
\* emits events for every group of the last declaration row above it.
C25_HintNarrowsOneCellOnly ==
    ParsedRows =>
        \A r \in RowsRead(call.arg) : \A column \in 1..Len(DayColumns) :
            LET cell == call.arg[r].cells[column]
            IN call.arg[r].first = "morning" /\ cell.course # "" =>
                  GroupsOfCell(call.result, r, column) =
                      IF cell.hint # 0 THEN {ClassGroupLabel(cell.hint)}
                      ELSE DeclaredAbove(call.arg, r)

\* two groups are declared; a cell hints at one of them, and the next cell of
\* the row and a cell of the next row, both without a hint, emit for both
C25_Witness ==
    /\ ParsedRows
    /\ Len(call.arg) = 3
    /\ call.arg[1].first = "label" /\ call.arg[1].label = DeclareOneAndThree
    /\ call.arg[2].first = "morning" /\ call.arg[2].cells[1].hint = 3
    /\ call.arg[2].cells[2] = [course |-> "X", hint |-> 0]
    /\ GroupsOfCell(call.result, 2, 1) = {ClassGroupLabel(3)}
    /\ GroupsOfCell(call.result, 2, 2) = {ClassGroupLabel(1), ClassGroupLabel(3)}
    /\ call.arg[3].first = "morning" /\ call.arg[3].cells[1] = [course |-> "X", hint |-> 0]
    /\ GroupsOfCell(call.result, 3, 1) = {ClassGroupLabel(1), ClassGroupLabel(3)}

\* ---- C26 ----
\* the (semester, class group, instruction code) places a request's scope covers
ScopeOfRequest(parsed) ==
    (IF parsed.semesterKey = "" THEN SemesterKeys ELSE {parsed.semesterKey})
    \X (IF parsed.classGroupName = "" THEN ClassGroupNames ELSE {parsed.classGroupName})
    \X (IF parsed.instructionCode = "" THEN InstructionCodes \cup {""}
        ELSE {parsed.instructionCode})

\* C26: right after a detach request for a lecturer at a scope, resolving
\* the lecturers of that course anywhere within that scope does not return
\* that lecturer.
C26_DetachedLecturerNotResolved ==
    [][\A body \in LecturerRequests :
          DetachLecturer(body) =>
             LET parsed == CHOOSE x \in ParseCourseAndLecturer(body) : TRUE
             IN \A place \in ScopeOfRequest(parsed) :
                   parsed.lecturerId \notin
                       EntryLevelLecturers(parsed.courseCode, place[1], place[2], place[3])']_vars

\* ---- C28 ----
\* the class groups of the cohorts other than the named one
ClassGroupsOfOtherCohorts(cohortCode) ==
    {g \in classGroups : \E c \in cohorts : c.id = g.cohortId /\ c.code # cohortCode}

\* what the schedule query of S1 resolves for course X in a class group
ResolvedFor(classGroupName) ==
    [instructionCode \in InstructionCodes \cup {""} |->
        EntryLevelLecturers("X", "S1", classGroupName, instructionCode)]

\* a class group of the cohort is deleted or renamed in this step
DeletesOrRenamesIn(cohortCode) ==
    \E classGroupName \in ClassGroupNames :
        \/ AdminDeleteClassGroup("S1", cohortCode, classGroupName)
        \/ \E newClassGroupName \in {"it 01", "IT 02"} :
              AdminRenameClassGroup("S1", cohortCode, classGroupName, newClassGroupName)

\* C28: deleting or renaming a class group in one cohort leaves the
\* lecturers resolved for the class groups of every other cohort unchanged,
\* a group of the same name in another cohort included.
C28_OtherCohortsKeepLecturers ==
    [][\A cohortCode \in {"K69", "K70"} :
          DeletesOrRenamesIn(cohortCode) =>
             \A g \in ClassGroupsOfOtherCohorts(cohortCode) :
                 ResolvedFor(g.name)' = ResolvedFor(g.name)]_vars

\* ---- C29 ----
\* the class-group names that exist in the semester of the key
ClassGroupNamesOfSemester(semesterKey) ==
    {g.name : g \in {x \in classGroups :
        \E c \in cohorts, sem \in semesters :
            sem.key = semesterKey /\ c.semesterId = sem.id /\ x.cohortId = c.id}}

\* C29: every enabled assignment that names a class group names one that
\* exists in its semester.
C29_AssignmentsNameExistingGroups ==
    \A a \in assignments :
        a.enabled /\ a.classGroupName # "" =>
            a.classGroupName \in ClassGroupNamesOfSemester(a.semesterKey)

\* ---- C30 ----
\* the ScheduleEntry rows stored for the cohorts the summary of the last
\* import lists
EntriesOfListedCohorts ==
    {e \in scheduleEntries :
        \E g \in classGroups, c \in cohorts :
            /\ e.classGroupId = g.id
            /\ g.cohortId = c.id
            /\ c.semesterId = imp.last.semesterId
            /\ c.code \in Range(imp.last.summary.cohorts)}

\* C30: after a successful import the entries count of the summary is the
\* number of ScheduleEntry rows stored for the cohorts the summary lists.
C30_SummaryEntriesAreStoredEntries ==
    ImportDone => imp.last.summary.entries = Cardinality(EntriesOfListedCohorts)

====
